---- MODULE Spec2Model ----
(***************************************************************************)
(* Model of the photo pipeline of Agent_new-2: the file registry (ledger), *)
(* the OpenAI rate limiter and retry loops, the metadata resolution and    *)
(* the fetch / analyse / resolve / publish stages.                         *)
(*                                                                         *)
(* Python values are records tagged with their type, so that values of     *)
(* different types can be compared: PyNone, PyStr(s), PyInt(n), PyBool(b), *)
(* PyList(l).  A Python str is a sequence of one-character strings, so     *)
(* that lower() and the substring test `in` are computed, not assumed.     *)
(* A filename is a record [stem, num, ext]: "a.jpg" is ["a", 0, ".jpg"],   *)
(* "Erni_Referenzfoto_0002.jpg" is ["Erni_Referenzfoto_", 2, ".jpg"].      *)
(***************************************************************************)
EXTENDS Integers, Sequences, FiniteSets, TLC

VARIABLES
    vcall,      \* resolution: the call last made (operation and arguments)
    vret,       \* resolution: what that call returned
    disk,       \* registry: the three registry files under data/registry
    reg,        \* registry: the FileRegistry object of each process
    rcall,      \* registry: the registry call last made, with what it found
    lim,        \* rate limiter: request_tokens, tokens, last_refill_time
    now,        \* rate limiter: time.time(), in seconds
    callers,    \* rate limiter: each worker's position in wait_for_capacity
    admitted,   \* rate limiter: the admissions of the last minute
    item,       \* retry: the frame of process_photo_with_openai
    inner,      \* retry: the frame of analyze_photo_with_openai
    error_count,\* retry: OpenAIRateLimiter.error_count
    hist,       \* retry: the backend calls and the sleeps of the item
    origin,     \* stages: the photos of the source library
    local,      \* stages: the local directories under data/
    target,     \* stages: the uploads the target library received
    stage,      \* stages: the stage that runs, and the work it has listed
    plog,       \* stages: what was extracted, inferred and fetched together
    prompt_cache, \* prompts: _prompt_cache, a dict in insertion order
    pool,       \* prompts: each thread's position in process_photo_with_openai
    batch,      \* prompts: the frame of process_photos_with_openai
    generated,  \* prompts: the cache keys whose prompt the batch has built
    auto,       \* sequence: the frame of auto_process.main
    fsys,       \* saves: the ledger file, its temporary file, the statistics
    saver,      \* saves: the process that saves, and what it holds in memory
    tracker     \* processes: ProcessTracker.processes and the processes alive

valVars == <<vcall, vret>>
regVars == <<disk, reg, rcall>>
limVars == <<lim, now, callers, admitted>>
retryVars == <<item, inner, error_count, hist>>
pipeVars == <<origin, local, target, stage, plog>>
cacheVars == <<prompt_cache, pool, batch, generated>>
autoVars == <<auto>>
\* the components added to the stages: the sequence of the scripts
saveVars == <<fsys, saver>>
trackVars == <<tracker>>
moreVars == <<autoVars, saveVars, trackVars>>

vars == <<vcall, vret, disk, reg, rcall, lim, now, callers, admitted,
          item, inner, error_count, hist, origin, local, target, stage, plog,
          prompt_cache, pool, batch, generated, auto, fsys, saver, tracker>>

\* what the actions of one component leave alone
NotVal == <<regVars, limVars, retryVars, pipeVars, cacheVars, moreVars>>
NotReg == <<valVars, limVars, retryVars, pipeVars, cacheVars, moreVars>>
NotLim == <<valVars, regVars, retryVars, pipeVars, cacheVars, moreVars>>
NotRetry == <<valVars, regVars, limVars, pipeVars, cacheVars, moreVars>>
NotPipe == <<valVars, rcall, limVars, retryVars, cacheVars, moreVars>>
NotCache == <<valVars, regVars, limVars, retryVars, pipeVars, moreVars>>
NotAuto == <<valVars, regVars, limVars, retryVars, pipeVars, cacheVars, saveVars,
             trackVars>>
NotSave == <<valVars, regVars, limVars, retryVars, pipeVars, cacheVars, autoVars,
             trackVars>>
NotTrack == <<valVars, regVars, limVars, retryVars, pipeVars, cacheVars, autoVars,
              saveVars>>

(***************************************************************************)
(* Python values and strings                                               *)
(***************************************************************************)
PyNone == [t |-> "None"]
PyStr(s) == [t |-> "str", s |-> s]
PyInt(n) == [t |-> "int", n |-> n]
PyBool(b) == [t |-> "bool", b |-> b]
PyList(l) == [t |-> "list", l |-> l]

IsStr(v) == v.t = "str"
IsList(v) == v.t = "list"

UpperChars == <<"A","B","C","D","E","F","G","H","I","J","K","L","M",
                "N","O","P","Q","R","S","T","U","V","W","X","Y","Z">>
LowerChars == <<"a","b","c","d","e","f","g","h","i","j","k","l","m",
                "n","o","p","q","r","s","t","u","v","w","x","y","z">>

\* str.lower() on one ASCII character
LowerChar(c) ==
    IF \E i \in DOMAIN UpperChars : UpperChars[i] = c
    THEN LowerChars[CHOOSE i \in DOMAIN UpperChars : UpperChars[i] = c]
    ELSE c

\* str.lower()
Lower(s) == [i \in 1..Len(s) |-> LowerChar(s[i])]

\* Python's `needle in hay` on two str: needle is a contiguous part of hay
\* (the empty string is part of every string)
Contains(needle, hay) ==
    \E i \in 0..(Len(hay) - Len(needle)) :
        SubSeq(hay, i + 1, i + Len(needle)) = needle

\* Python's `x in lst` on a list
InList(x, lst) == \E i \in DOMAIN lst : lst[i] = x

DigitChars == <<"0","1","2","3","4","5","6","7","8","9">>

RECURSIVE Digits(_)
\* str() of a natural number
Digits(n) ==
    IF n < Len(DigitChars) THEN <<DigitChars[n + 1]>>
    ELSE Digits(n \div Len(DigitChars)) \o <<DigitChars[(n % Len(DigitChars)) + 1]>>

RECURSIVE ReprItems(_)
\* the items of repr() of a list of str, joined by ", "
ReprItems(l) ==
    IF l = <<>> THEN <<>>
    ELSE LET head == IF IsStr(l[1]) THEN <<"'">> \o l[1].s \o <<"'">>
                     ELSE IF l[1].t = "int" THEN Digits(l[1].n)
                     ELSE IF l[1].t = "bool" THEN (IF l[1].b THEN <<"T","r","u","e">> ELSE <<"F","a","l","s","e">>)
                     ELSE <<"N","o","n","e">>
         IN  IF Len(l) = 1 THEN head ELSE head \o <<",", " ">> \o ReprItems(Tail(l))

\* str(value)
PyStrOf(v) ==
    CASE v.t = "str" -> v.s
      [] v.t = "int" -> Digits(v.n)
      [] v.t = "bool" -> IF v.b THEN <<"T","r","u","e">> ELSE <<"F","a","l","s","e">>
      [] v.t = "None" -> <<"N","o","n","e">>
      [] v.t = "list" -> <<"[">> \o ReprItems(v.l) \o <<"]">>

(***************************************************************************)
(* metadata_generator.validate_metadata_field                              *)
(***************************************************************************)
\* the (is_valid, validated_value) tuple the function returns
Validated(value) == [valid |-> TRUE, value |-> value]
Invalid == [valid |-> FALSE, value |-> PyNone]

\* the fuzzy test looking one way only: the candidate inside the choice
FuzzyMatchOneWay(value, choice) == Contains(Lower(value), Lower(choice))
\* the fuzzy test of the closest-match loops: substring either way, lower-cased
FuzzyMatch(value, choice) ==
    \/ Contains(Lower(value), Lower(choice))
    \/ Contains(Lower(choice), Lower(value))

\* `for choice in choices: if <fuzzy>: ...`: index of the first choice that
\* matches, 0 when the loop ends without a match
FirstFuzzy(value, choices) ==
    IF \E i \in DOMAIN choices : FuzzyMatch(value, choices[i])
    THEN CHOOSE i \in DOMAIN choices :
            /\ FuzzyMatch(value, choices[i])
            /\ \A j \in 1..(i - 1) : ~FuzzyMatch(value, choices[j])
    ELSE 0

\* the Choice branch (lines 191-202)
ValidateChoice(field_value, choices) ==
    IF IsStr(field_value) /\ InList(field_value.s, choices)
    THEN Validated(field_value)
    ELSE IF IsStr(field_value) /\ field_value.s # <<>> /\ FirstFuzzy(field_value.s, choices) # 0
    THEN Validated(PyStr(choices[FirstFuzzy(field_value.s, choices)]))
    ELSE Invalid

RECURSIVE MultiLoop(_, _, _)
\* the loop over the elements of a MultiChoice value (lines 214-224): the
\* result is [raised, valid_values]; value.lower() raises AttributeError on
\* an element that is not a str, which the outer except turns into
\* (False, None)
MultiLoop(values, choices, valid_values) ==
    IF values = <<>> THEN [raised |-> FALSE, valid_values |-> valid_values]
    ELSE LET value == values[1] IN
         IF IsStr(value) /\ InList(value.s, choices)
         THEN MultiLoop(Tail(values), choices, Append(valid_values, value))
         ELSE IF choices = <<>>
         THEN MultiLoop(Tail(values), choices, valid_values)
         ELSE IF ~IsStr(value)
         THEN [raised |-> TRUE, valid_values |-> valid_values]
         ELSE IF FirstFuzzy(value.s, choices) # 0
         THEN MultiLoop(Tail(values), choices,
                        Append(valid_values, PyStr(choices[FirstFuzzy(value.s, choices)])))
         ELSE MultiLoop(Tail(values), choices, valid_values)

\* the MultiChoice branch (lines 204-226)
ValidateMultiChoice(field_value, choices) ==
    LET as_list == IF IsStr(field_value) THEN <<field_value>>
                   ELSE IF IsList(field_value) THEN field_value.l
                   ELSE <<>>
        looped == MultiLoop(as_list, choices, <<>>)
    IN  IF ~IsStr(field_value) /\ ~IsList(field_value) THEN Invalid
        ELSE IF looped.raised THEN Invalid
        ELSE Validated(PyList(looped.valid_values))

\* validate_metadata_field(field_name, field_value, field_schema)
validate_metadata_field(field_name, field_value, field_schema) ==
    CASE field_schema.type \in {"Text", "Note"} ->
            IF field_value = PyNone THEN Validated(PyStr(<<>>))
            ELSE Validated(PyStr(PyStrOf(field_value)))
      [] field_schema.type = "Choice" ->
            ValidateChoice(field_value, field_schema.choices)
      [] field_schema.type = "MultiChoice" ->
            ValidateMultiChoice(field_value, field_schema.choices)
      [] OTHER -> Validated(field_value)

(***************************************************************************)
(* metadata_generator.generate_metadata_for_upload                         *)
(***************************************************************************)
\* a Python dict with str keys is a function on its keys
EmptyDict == [k \in {} |-> PyNone]
DictSet(d, key, value) ==
    [k \in (DOMAIN d) \cup {key} |-> IF k = key THEN value ELSE d[k]]
HasKey(d, key) == key \in DOMAIN d

\* fields generate_metadata_for_upload leaves to SharePoint (lines 363-364)
SkipFields == {"ID", "Created", "Modified", "Author", "Editor", "ContentType",
               "Vorschau", "DocIcon", "ComplianceAssetId", "OriginalName"}

\* field_priorities (lines 275-320): title -> ordered data sources
PriorityExifFirst == {"DateTime", "Datum", "Aufnahmedatum", "Kamera", "Objektiv",
                      "Camera", "Lens", "ISO", "Aperture", "ShutterSpeed",
                      "FocalLength", "Copyright", "Author", "Autor", "Fotograf",
                      "Photographer"}
PriorityGpsFirst == {"OrtohnePLZ", "Ort", "Standort", "Location"}
PriorityAnalysisFirst == {"Titel", "Beschreibung", "Beschreibung_kurz",
                          "Beschreibung_lang", "Title", "Description"}
PriorityAnalysisOnly == {"Material", "Konstruktion", "Holzart", "Bauweise",
                         "Construction", "WoodType", "BuildingType"}
HasPriorities(title) ==
    title \in PriorityExifFirst \cup PriorityGpsFirst
              \cup PriorityAnalysisFirst \cup PriorityAnalysisOnly
field_priorities(title) ==
    CASE title \in PriorityExifFirst -> <<"exif", "analysis">>
      [] title \in PriorityGpsFirst -> <<"exif_gps", "analysis">>
      [] title \in PriorityAnalysisFirst -> <<"analysis", "exif">>
      [] title \in PriorityAnalysisOnly -> <<"analysis">>

\* exif_to_sharepoint (lines 324-355): title -> EXIF tag, "" when the title
\* has no EXIF tag (dict.get gives None)
exif_to_sharepoint(title) ==
    CASE title \in {"DateTime", "Datum", "Aufnahmedatum"} -> "DateTimeOriginal"
      [] title \in {"Artist", "Author", "Autor", "Fotograf", "Photographer"} -> "Artist"
      [] title = "Copyright" -> "Copyright"
      [] title \in {"Titel", "Title", "Beschreibung", "Beschreibung_kurz", "Description"} -> "ImageDescription"
      [] title \in {"Kamera", "Camera"} -> "Make"
      [] title \in {"Objektiv", "Lens"} -> "LensModel"
      [] title = "ISO" -> "ISOSpeedRatings"
      [] title = "Aperture" -> "FNumber"
      [] title = "ShutterSpeed" -> "ExposureTime"
      [] title = "FocalLength" -> "FocalLength"
      [] OTHER -> ""

\* str.find(sep): index of the first occurrence of sep in s, 0 when absent
FindSep(sep, s) ==
    IF \E i \in 1..(Len(s) - Len(sep) + 1) : SubSeq(s, i, i + Len(sep) - 1) = sep
    THEN CHOOSE i \in 1..(Len(s) - Len(sep) + 1) :
            /\ SubSeq(s, i, i + Len(sep) - 1) = sep
            /\ \A j \in 1..(i - 1) : SubSeq(s, j, j + Len(sep) - 1) # sep
    ELSE 0

\* s.split(sep)[0] and what follows the first separator
SplitHead(sep, s) ==
    IF FindSep(sep, s) = 0 THEN s ELSE SubSeq(s, 1, FindSep(sep, s) - 1)
SplitRest(sep, s) == SubSeq(s, FindSep(sep, s) + Len(sep), Len(s))

\* float(s) succeeds: an optional sign, digits and at most one point, at least
\* one digit (the decimal form the formatted GPS string uses)
IsFloat(s) ==
    LET body == IF s # <<>> /\ s[1] \in {"-", "+"} THEN Tail(s) ELSE s
    IN  /\ \A i \in DOMAIN body : InList(body[i], DigitChars) \/ body[i] = "."
        /\ \E i \in DOMAIN body : InList(body[i], DigitChars)
        /\ Cardinality({i \in DOMAIN body : body[i] = "."}) <= 1

\* lines 394-396: gps_str.split(': ')[1].split(', '), float(coords[0]),
\* float(coords[1]) raise IndexError or ValueError unless this holds
GpsParses(gps_str) ==
    /\ FindSep(<<":", " ">>, gps_str) # 0
    /\ LET after == SplitHead(<<":", " ">>, SplitRest(<<":", " ">>, gps_str))
       IN  /\ FindSep(<<",", " ">>, after) # 0
           /\ IsFloat(SplitHead(<<",", " ">>, after))
           /\ IsFloat(SplitHead(<<",", " ">>, SplitRest(<<",", " ">>, after)))

GpsPrefix == <<"G", "P", "S", ":", " ">>

\* bool(value) for the values a dict lookup can give
Truthy(v) ==
    CASE v.t = "str" -> v.s # <<>>
      [] v.t = "int" -> v.n # 0
      [] v.t = "bool" -> v.b
      [] v.t = "list" -> v.l # <<>>
      [] OTHER -> FALSE

\* a GPS branch that gives nothing when the place name is not found
GpsValueOrNothing(gps_str, geo) ==
    IF GpsParses(gps_str) /\ Truthy(geo) THEN geo ELSE PyNone

\* lines 392-408: the place name geocode_coordinates found, and the text of
\* the coordinates when it found none or the text does not parse
gps_value(gps_str, geo) ==
    IF GpsParses(gps_str) /\ Truthy(geo) THEN geo
    ELSE PyStr(GpsPrefix \o gps_str)

\* one pass of `for source in priorities` from position i (lines 374-411):
\* [raised, value]; geo is what geocode_coordinates returns for this photo
RECURSIVE PriorityLoop(_, _, _, _, _, _)
PriorityLoop(priorities, i, title, analysis, exif_metadata, geo) ==
    IF i > Len(priorities) THEN [raised |-> FALSE, value |-> PyNone]
    ELSE LET source == priorities[i]
             exif_field == exif_to_sharepoint(title)
             next == PriorityLoop(priorities, i + 1, title, analysis, exif_metadata, geo)
         IN  IF source = "analysis" /\ HasKey(analysis, title)
             THEN [raised |-> FALSE, value |-> analysis[title]]
             ELSE IF source = "exif"
             THEN IF exif_field # "" /\ HasKey(exif_metadata, exif_field)
                  THEN [raised |-> FALSE, value |-> exif_metadata[exif_field]]
                  ELSE next
             ELSE IF source = "exif_gps" /\ HasKey(exif_metadata, "GPSInfo")
             THEN IF title = "OrtohnePLZ" /\ HasKey(exif_metadata, "GPS Coordinates")
                  THEN LET gps_str == exif_metadata["GPS Coordinates"] IN
                       IF ~Truthy(gps_str) THEN next
                       ELSE IF ~IsStr(gps_str)
                       THEN [raised |-> TRUE, value |-> PyNone]
                       ELSE [raised |-> FALSE, value |-> gps_value(gps_str.s, geo)]
                  ELSE next
             ELSE next

\* the candidate value of one field (lines 367-422)
CandidateValue(title, analysis, exif_metadata, geo) ==
    IF HasPriorities(title)
    THEN PriorityLoop(field_priorities(title), 1, title, analysis, exif_metadata, geo)
    ELSE LET exif_field == exif_to_sharepoint(title) IN
         IF exif_field # "" /\ HasKey(exif_metadata, exif_field)
         THEN [raised |-> FALSE, value |-> exif_metadata[exif_field]]
         ELSE IF HasKey(analysis, title)
         THEN [raised |-> FALSE, value |-> analysis[title]]
         ELSE [raised |-> FALSE, value |-> PyNone]

\* the loop over schema['fields'] (lines 358-430): [raised, metadata]
RECURSIVE FieldLoop(_, _, _, _, _)
FieldLoop(fields, metadata, analysis, exif_metadata, geo) ==
    IF fields = <<>> THEN [raised |-> FALSE, metadata |-> metadata]
    ELSE LET field == fields[1]
             cand == CandidateValue(field.title, analysis, exif_metadata, geo)
             checked == validate_metadata_field(field.internal_name, cand.value, field)
         IN  IF field.internal_name \in SkipFields
             THEN FieldLoop(Tail(fields), metadata, analysis, exif_metadata, geo)
             ELSE IF cand.raised
             THEN [raised |-> TRUE, metadata |-> metadata]
             ELSE IF cand.value # PyNone /\ checked.valid /\ checked.value # PyNone
             THEN FieldLoop(Tail(fields),
                            DictSet(metadata, field.internal_name, checked.value),
                            analysis, exif_metadata, geo)
             ELSE FieldLoop(Tail(fields), metadata, analysis, exif_metadata, geo)

StatusDraft == <<"E","n","t","w","u","r","f"," ","K","I">>

\* generate_metadata_for_upload that keeps an original name the inference
\* supplied
GenerateKeepingInferredName(photo_info, schema, target_filename, geo) ==
    LET looped == FieldLoop(schema.fields,
                            DictSet(EmptyDict, "FileLeafRef", target_filename),
                            photo_info.analysis, photo_info.metadata, geo)
        with_status == IF HasKey(looped.metadata, "Status") THEN looped.metadata
                       ELSE DictSet(looped.metadata, "Status", PyStr(StatusDraft))
    IN  IF looped.raised THEN [raised |-> TRUE, metadata |-> EmptyDict]
        ELSE [raised |-> FALSE,
              metadata |-> DictSet(with_status, "OriginalName",
                                   IF HasKey(photo_info.analysis, "OriginalName")
                                   THEN photo_info.analysis["OriginalName"]
                                   ELSE photo_info.name)]

\* generate_metadata_for_upload(photo_info, schema, target_filename), with
\* the geocoder's answer geo: [raised, metadata]
generate_metadata_for_upload(photo_info, schema, target_filename, geo) ==
    LET looped == FieldLoop(schema.fields,
                            DictSet(EmptyDict, "FileLeafRef", target_filename),
                            photo_info.analysis, photo_info.metadata, geo)
        with_status == IF HasKey(looped.metadata, "Status") THEN looped.metadata
                       ELSE DictSet(looped.metadata, "Status", PyStr(StatusDraft))
    IN  IF looped.raised THEN [raised |-> TRUE, metadata |-> EmptyDict]
        ELSE [raised |-> FALSE,
              metadata |-> DictSet(with_status, "OriginalName", photo_info.name)]

(***************************************************************************)
(* Resolution: the inputs the validation and generation calls are made on  *)
(***************************************************************************)
sResidential == <<"R","e","s","i","d","e","n","t","i","a","l">>
sIndustrial == <<"I","n","d","u","s","t","r","i","a","l">>
sResidentialBuilding == <<"r","e","s","i","d","e","n","t","i","a","l"," ","b","u","i","l","d","i","n","g">>
sSpaceship == <<"S","p","a","c","e","s","h","i","p">>
sINDUSTRIAL == <<"I","N","D","U","S","T","R","I","A","L">>
sTrial == <<"t","r","i","a","l">>
sAl == <<"a","l">>
sEmpty == <<>>
sNone == <<"n","o","n","e">>
sBern == <<"B","e","r","n">>
sGpsGood == <<"G","P","S",":"," ","4","7",".","1",","," ","8",".","2">>
sGpsBad == <<"4","7",".","1",";","8",".","2">>
sDate == <<"2","0","2","3",":","0","1",":","0","1">>
sFertig == <<"F","e","r","t","i","g">>

\* the longest list a MultiChoice candidate is given as
MaxListLen == 2

\* allowed values of the choice fields, in schema order
ChoiceLists == {<<sResidential, sIndustrial>>, <<sIndustrial, sResidential>>,
                <<sIndustrial>>, <<>>}

\* candidate strings: exact, fuzzy in either direction, ambiguous, unmatched,
\* empty
CandidateStrings == {sResidential, sResidentialBuilding, sSpaceship, sINDUSTRIAL,
                     sTrial, sAl, sEmpty}
ScalarCandidates == {PyStr(s) : s \in CandidateStrings} \cup {PyNone, PyInt(7), PyBool(TRUE)}

ListCandidates ==
    {PyList(l) : l \in UNION {[1..n -> {PyStr(sResidentialBuilding), PyStr(sSpaceship),
                                        PyStr(sIndustrial), PyStr(sEmpty), PyStr(sAl),
                                        PyInt(7)}] : n \in 0..MaxListLen}}

Field(internal_name, title, type, required, choices) ==
    [internal_name |-> internal_name, title |-> title, type |-> type,
     required |-> required, choices |-> choices]

\* schema fields the generation is run on: text, note, choice, multi choice,
\* date, two location fields, a skip-listed field, the workflow status and the tracking
\* field of the original name
SchemaFields ==
    {Field("Title", "Titel", "Text", TRUE, <<>>),
     Field("Category", "Projektkategorie", "Choice", TRUE, <<sResidential, sIndustrial>>),
     Field("Material", "Material", "MultiChoice", FALSE, <<sResidential, sIndustrial>>),
     Field("Datum", "Datum", "DateTime", FALSE, <<>>),
     Field("OrtohnePLZ", "OrtohnePLZ", "Text", TRUE, <<>>),
     Field("Ort", "Ort", "Text", FALSE, <<>>),
     Field("Author", "Author", "Text", TRUE, <<>>),
     Field("Status", "Status", "Choice", TRUE, <<StatusDraft, sFertig>>),
     Field("OriginalName", "OriginalName", "Text", FALSE, <<>>)}


\* the most fields a schema of the model has
MaxFields == 2

Schemas ==
    {[fields |-> f] : f \in UNION {[1..n -> SchemaFields] : n \in 1..MaxFields}}

\* inference outputs (title -> value) and EXIF attributes (tag -> value)
Analyses ==
    {EmptyDict,
     [k \in {"Titel", "Projektkategorie"} |->
        IF k = "Titel" THEN PyStr(sBern) ELSE PyStr(sResidentialBuilding)],
     [k \in {"Projektkategorie", "Material"} |->
        IF k = "Projektkategorie" THEN PyStr(sSpaceship)
        ELSE PyList(<<PyStr(sIndustrial), PyStr(sEmpty)>>)],
     [k \in {"Titel", "OrtohnePLZ", "Ort", "Datum"} |->
        IF k = "Titel" THEN PyNone ELSE PyStr(sTrial)],
     [k \in {"Status", "OriginalName"} |->
        IF k = "Status" THEN PyStr(sFertig) ELSE PyStr(sBern)]}

ExifSets ==
    {EmptyDict,
     [k \in {"DateTimeOriginal", "ImageDescription"} |-> PyStr(sDate)],
     [k \in {"GPSInfo", "GPS Coordinates"} |->
        IF k = "GPSInfo" THEN PyStr(sAl) ELSE PyStr(sGpsGood)],
     [k \in {"GPSInfo", "GPS Coordinates", "Artist"} |->
        IF k = "GPS Coordinates" THEN PyStr(sGpsBad) ELSE PyStr(sAl)]}

\* what geocode_coordinates can answer: a place name, or None
GeoAnswers == {PyStr(sBern), PyNone}

PhotoName == PyStr(<<"a", ".", "j", "p", "g">>)
TargetName == PyStr(<<"E", "_", "1", ".", "j", "p", "g">>)

(***************************************************************************)
(* utils/registry.py: FileRegistry                                         *)
(*                                                                         *)
(* A registry dict keeps its insertion order and is written to its JSON    *)
(* file as a list of entries: it is a sequence of [k, v] pairs here, so    *)
(* that "one entry per key" is a property of the code, not of the model.   *)
(***************************************************************************)
OHas(d, key) == \E i \in DOMAIN d : d[i].k = key
OGet(d, key) == d[CHOOSE i \in DOMAIN d : d[i].k = key].v
OKeys(d) == {d[i].k : i \in DOMAIN d}
OCount(d, key) == Cardinality({i \in DOMAIN d : d[i].k = key})
\* d[key] = value written as an insertion: a second entry for a key already there
OSetAppending(d, key, value) == Append(d, [k |-> key, v |-> value])
\* d[key] = value
OSet(d, key, value) ==
    IF OHas(d, key)
    THEN [i \in DOMAIN d |-> IF d[i].k = key THEN [k |-> key, v |-> value] ELSE d[i]]
    ELSE Append(d, [k |-> key, v |-> value])

\* filenames: stem, number (0 when the name has none) and extension
FileName(stem, num, ext) == [stem |-> stem, num |-> num, ext |-> ext]
NameA == FileName("a", 0, ".jpg")
NameB == FileName("b", 0, ".jpg")
TargetStem == "Erni_Referenzfoto_"
\* os.path.splitext(name)[0]
BaseName(name) == FileName(name.stem, name.num, "")

\* file contents, their sizes and their MD5 digests (distinct contents have
\* distinct digests)
Contents == {"c1", "c2"}
SizeOf(content) == IF content = "c1" THEN "size1" ELSE "size2"

\* calculate_file_hash: the MD5 of the content, or the fallback string built
\* from the name and the size when the file cannot be read (lines 277-291)
calculate_file_hash(name, content, readable) ==
    IF readable THEN [kind |-> "md5", of |-> content, name |-> FileName("", 0, "")]
    ELSE [kind |-> "fallback", of |-> SizeOf(content), name |-> name]

\* the dicts _load_registry gives for a file that does not exist (line 71),
\* with "hashes" added by __init__ (lines 49-50)
EmptyProcessed == [files |-> <<>>, has_mapping |-> FALSE, filename_mapping |-> <<>>]
EmptyUploaded == [files |-> <<>>]
EmptyHashes == [hashes |-> <<>>]

\* a registry file: whether it exists, whether load_json_file can read and
\* parse it, and the dict that was written to it
Missing(data) == [exists |-> FALSE, valid |-> FALSE, data |-> data]
Stored(data) == [exists |-> TRUE, valid |-> TRUE, data |-> data]
RegistryFiles == {"processed_file", "uploaded_file", "file_hashes_file"}
\* the files as a process finds them when those of bad cannot be read
Damaged(files, bad) ==
    [f \in RegistryFiles |->
        IF f \in bad /\ files[f].exists THEN [files[f] EXCEPT !.valid = FALSE]
        ELSE files[f]]

\* _load_registry on a file that is read whatever its state
LoadWhateverIsThere(file, empty) == file.data
\* _load_registry (lines 54-71): the dict of the file, or a new one when
\* the file does not exist or load_json_file raises
load_registry(file, empty) ==
    IF file.exists /\ file.valid THEN file.data ELSE empty

\* FileRegistry.__init__ (lines 32-52): line 52 reads processed['files']
\* and uploaded['files']; unread are the files whose load logged an error
NewFileRegistry(files) ==
    LET processed == load_registry(files.processed_file, EmptyProcessed)
        uploaded == load_registry(files.uploaded_file, EmptyUploaded)
        file_hashes == load_registry(files.file_hashes_file, EmptyHashes)
    IN  [loaded |-> "files" \in DOMAIN processed /\ "files" \in DOMAIN uploaded,
         processed |-> processed,
         uploaded |-> uploaded,
         file_hashes |-> file_hashes,
         unread |-> {f \in RegistryFiles : files[f].exists /\ ~files[f].valid}]

NoRegistry ==
    [loaded |-> FALSE, processed |-> EmptyProcessed, uploaded |-> EmptyUploaded,
     file_hashes |-> EmptyHashes, unread |-> {}]

\* is_processed, is_uploaded (lines 88-110)
is_processed(r, filename) == OHas(r.processed.files, filename)
is_uploaded(r, filename) == OHas(r.uploaded.files, filename)

\* mark_as_processed: the in-memory update (lines 120-123)
mark_as_processed(r, filename, metadata) ==
    [r EXCEPT !.processed.files = OSet(@, filename, [metadata |-> metadata])]

\* mark_as_uploaded: the in-memory update (lines 135-138)
mark_as_uploaded(r, filename, target_url) ==
    [r EXCEPT !.uploaded.files = OSet(@, filename, [target_url |-> target_url])]

\* map_filename: the in-memory update (lines 244-248)
map_filename(r, original_filename, target_filename) ==
    [r EXCEPT !.processed.has_mapping = TRUE,
              !.processed.filename_mapping = OSet(@, original_filename, target_filename)]

\* a dict without the key (del d[key])
ODel(d, key) == SelectSeq(d, LAMBDA e : e.k # key)

\* remove_from_processed: the in-memory update (lines 198-199)
remove_from_processed(r, filename) ==
    [r EXCEPT !.processed.files = ODel(@, filename)]

\* remove_from_uploaded: the in-memory update (lines 214-215)
remove_from_uploaded(r, filename) ==
    [r EXCEPT !.uploaded.files = ODel(@, filename)]

\* a purge that empties the hash registry too
ClearWithHashes(r) ==
    [r EXCEPT !.processed = EmptyProcessed, !.uploaded = EmptyUploaded,
              !.file_hashes = EmptyHashes]

\* clear_registries: the in-memory update (lines 226-227)
clear_registries(r) ==
    [r EXCEPT !.processed = EmptyProcessed, !.uploaded = EmptyUploaded]

\* get_mapped_filename (lines 262-265): [found, name]
get_mapped_filename(r, original_filename) ==
    IF r.processed.has_mapping /\ OHas(r.processed.filename_mapping, original_filename)
    THEN [found |-> TRUE, name |-> OGet(r.processed.filename_mapping, original_filename)]
    ELSE [found |-> FALSE, name |-> original_filename]

\* the hash looked up among the processed files, which are kept by name
HashAmongProcessedFiles(r, file_hash) == OHas(r.processed.files, file_hash)
\* is_file_processed_by_hash (lines 303-304), on the hash of the file
is_file_processed_by_hash(r, file_hash) == OHas(r.file_hashes.hashes, file_hash)

\* register_file_hash: the in-memory update (lines 317-324)
register_file_hash(r, file_hash, filename, metadata) ==
    [r EXCEPT !.file_hashes.hashes =
        OSet(@, file_hash, [filename |-> filename, metadata |-> metadata])]

\* _save_registry (lines 81-86): the whole dict replaces the file (paths.py
\* save_json_file writes a temporary file and renames it); when the write
\* fails the exception is logged and the file keeps its content
save_registry(files, which, data, ok) ==
    IF ok THEN [files EXCEPT ![which] = Stored(data)] ELSE files

\* the except clause of _save_registry (lines 85-86) logs the error of the
\* write and ends the handler: nothing is raised again
SaveErrorsPropagate == FALSE
\* whether a recording call leaves by an exception when its write fails
save_raises(ok) == ~ok /\ SaveErrorsPropagate

\* the processes that hold a FileRegistry
Procs == {"p1", "p2"}

RegIdle ==
    /\ disk = [processed_file |-> Missing(EmptyProcessed),
               uploaded_file |-> Missing(EmptyUploaded),
               file_hashes_file |-> Missing(EmptyHashes)]
    /\ reg = [p \in Procs |-> NoRegistry]
    /\ rcall = [op |-> "none"]

(***************************************************************************)
(* openai_analyzer.py: OpenAIRateLimiter                                   *)
(*                                                                         *)
(* Time is counted in whole seconds.  The two budgets are floats in the    *)
(* code, refilled by rate * elapsed / 60: they are kept here multiplied by *)
(* 60, which makes every refill an integer.                                *)
(***************************************************************************)
\* seconds per minute: the divisor of the refill (lines 386-387)
SecondsPerMinute == 60
\* max_wait_time of wait_for_capacity (line 407)
MaxWaitTime == 60
\* the factor of the dynamic wait time (line 418)
WaitFactor == 10

\* the limiter's configuration: requests_per_minute, max_tokens_per_minute
RequestsPerMinute == 3
MaxTokensPerMinute == 3
\* the estimate every call asks for (total_tokens_estimate)
CallTokens == 1

Min(a, b) == IF a <= b THEN a ELSE b

\* OpenAIRateLimiter.__init__ (lines 324-339): both buckets full
NewRateLimiter(time) ==
    [request_tokens60 |-> RequestsPerMinute * SecondsPerMinute,
     tokens60 |-> MaxTokensPerMinute * SecondsPerMinute,
     last_refill_time |-> time]

\* a refill that adds to the buckets without a ceiling
RefillUncapped(l, current_time) ==
    LET elapsed_time == current_time - l.last_refill_time IN
    [request_tokens60 |-> l.request_tokens60 + RequestsPerMinute * elapsed_time,
     tokens60 |-> l.tokens60 + MaxTokensPerMinute * elapsed_time,
     last_refill_time |-> current_time]

\* the locked block of _refill_tokens (lines 381-394)
refill_tokens(l, current_time) ==
    LET elapsed_time == current_time - l.last_refill_time IN
    [request_tokens60 |-> Min(RequestsPerMinute * SecondsPerMinute,
                              l.request_tokens60 + RequestsPerMinute * elapsed_time),
     tokens60 |-> Min(MaxTokensPerMinute * SecondsPerMinute,
                      l.tokens60 + MaxTokensPerMinute * elapsed_time),
     last_refill_time |-> current_time]

\* a test that asks for a request slot only
HasRequestSlot(l, tokens_needed) == l.request_tokens60 >= SecondsPerMinute

\* the test of wait_for_capacity (line 411)
has_capacity(l, tokens_needed) ==
    /\ l.request_tokens60 >= SecondsPerMinute
    /\ l.tokens60 >= tokens_needed * SecondsPerMinute

\* the consumption of wait_for_capacity (lines 413-414)
consume(l, tokens_needed) ==
    [l EXCEPT !.request_tokens60 = @ - SecondsPerMinute,
              !.tokens60 = @ - tokens_needed * SecondsPerMinute]

\* time.sleep(wait_time) of line 420 is over: wait_time is
\* 1 + (tokens_needed / max_tokens_per_minute) * 10
slept_enough(since, time, tokens_needed) ==
    (time - since) * MaxTokensPerMinute >= MaxTokensPerMinute + tokens_needed * WaitFactor

\* the pool workers that call wait_for_capacity
Workers == {"w1", "w2"}

IdleCaller == [pc |-> "idle", tokens_needed |-> 0, start_time |-> 0, since |-> 0]

LimIdle ==
    /\ lim = NewRateLimiter(0)
    /\ now = 0
    /\ callers = [w \in Workers |-> IdleCaller]
    /\ admitted = <<>>

(***************************************************************************)
(* openai_analyzer.py: process_photo_with_openai, analyze_photo_with_openai *)
(* and OpenAIRateLimiter.record_error                                      *)
(*                                                                         *)
(* Messages are Python str; delays are counted in milliseconds.            *)
(***************************************************************************)
\* the default of max_retries in both functions (lines 934 and 1215)
max_retries == 3
\* backoff_time = 1 (line 1231), the cap of min(30, ...) (line 1239) and
\* the sleeps of analyze_photo_with_openai (lines 1152, 1167, 1170, 1182)
InitialBackoff == 1000
BackoffCap == 30000
RetryPause == 2000
DefaultRateLimitWait == 5000
RateLimitBuffer == 1000
Millis == 1000

\* what the backend, or a file system, may report
eTimeout == <<"R","e","q","u","e","s","t"," ","t","i","m","e","o","u","t">>
eConnection == <<"C","o","n","n","e","c","t","i","o","n"," ","e","r","r","o","r",".">>
eRateLimit == <<"R","a","t","e"," ","l","i","m","i","t"," ","r","e","a","c","h","e","d",","," ","t","r","y"," ","a","g","a","i","n"," ","i","n"," ","2","s">>
eInvalidKey == <<"I","n","v","a","l","i","d"," ","A","P","I"," ","k","e","y">>
eDiskFull == <<"N","o"," ","s","p","a","c","e"," ","l","e","f","t"," ","o","n"," ","d","e","v","i","c","e">>
eShareLost == <<"C","o","n","n","e","c","t","i","o","n"," ","t","i","m","e","d"," ","o","u","t">>

\* what the code itself reports
eNoStats == <<"'","O","p","e","n","A","I","R","a","t","e","L","i","m","i","t","e","r","'"," ","o","b","j","e","c","t"," ","h","a","s"," ","n","o"," ","a","t","t","r","i","b","u","t","e"," ","'","s","t","a","t","s","'">>
eUnbound == <<"l","o","c","a","l"," ","v","a","r","i","a","b","l","e"," ","'","r","e","s","u","l","t","_","t","e","x","t","'"," ","r","e","f","e","r","e","n","c","e","d"," ","b","e","f","o","r","e"," ","a","s","s","i","g","n","m","e","n","t">>
eCapacity == <<"T","i","m","e","o","u","t"," ","w","a","i","t","i","n","g"," ","f","o","r"," ","A","P","I"," ","c","a","p","a","c","i","t","y","."," ","T","r","y"," ","a","g","a","i","n"," ","l","a","t","e","r",".">>
eParse == <<"F","a","i","l","e","d"," ","t","o"," ","p","a","r","s","e"," ","J","S","O","N"," ","f","r","o","m"," ","r","e","s","p","o","n","s","e">>
eWrongFunction == <<"U","n","e","x","p","e","c","t","e","d"," ","f","u","n","c","t","i","o","n"," ","n","a","m","e",":"," ","o","t","h","e","r">>
eExceeded == <<"M","a","x","i","m","u","m"," ","r","e","t","r","y"," ","a","t","t","e","m","p","t","s"," ","(","3",")"," ","e","x","c","e","e","d","e","d","."," ","L","a","s","t"," ","e","r","r","o","r",":"," ">>

\* retryable_errors (lines 1284-1292) and retryable_exceptions (1329-1337)
retryable_errors ==
    <<<<"F","a","i","l","e","d"," ","t","o"," ","p","a","r","s","e"," ","J","S","O","N">>, <<"r","a","t","e"," ","l","i","m","i","t">>, <<"t","i","m","e","o","u","t">>, <<"c","o","n","n","e","c","t","i","o","n">>,
      <<"n","e","t","w","o","r","k">>, <<"s","e","r","v","e","r">>, <<"c","a","p","a","c","i","t","y">>>>
retryable_exceptions ==
    <<<<"r","a","t","e"," ","l","i","m","i","t">>, <<"t","i","m","e","o","u","t">>, <<"c","o","n","n","e","c","t","i","o","n">>, <<"n","e","t","w","o","r","k">>,
      <<"s","e","r","v","e","r">>, <<"c","a","p","a","c","i","t","y">>, <<"t","o","o"," ","m","a","n","y"," ","r","e","q","u","e","s","t","s">>>>

\* any(err in error_msg.lower() for err in keywords)
AnyIn(keywords, error_msg) ==
    \E i \in DOMAIN keywords : Contains(keywords[i], Lower(error_msg))

\* the attribute record_error reads (lines 490-502): __init__ (lines
\* 316-372) never assigns self.stats
HasStatsAttribute == FALSE

\* record_error (lines 485-505): the counter moves, then self.stats is read
record_error(count) ==
    [error_count |-> count + 1,
     raised |-> ~HasStatsAttribute,
     message |-> eNoStats]

RECURSIVE DigitRun(_)
\* how many digits s starts with
DigitRun(s) ==
    IF s # <<>> /\ InList(s[1], DigitChars) THEN 1 + DigitRun(Tail(s)) ELSE 0

RECURSIVE ToNat(_)
\* int() of a run of digits
ToNat(ds) ==
    IF ds = <<>> THEN 0
    ELSE ToNat(SubSeq(ds, 1, Len(ds) - 1)) * Len(DigitChars)
         + (CHOOSE n \in 0..9 : DigitChars[n + 1] = ds[Len(ds)])

sTryAgainIn == <<"t","r","y"," ","a","g","a","i","n"," ","i","n"," ">>

\* re.search(r'try again in (\d+\.?\d*)s', text) matches at position i
WaitMatchAt(text, i) ==
    LET rest == SubSeq(text, i + Len(sTryAgainIn), Len(text))
        d1 == DigitRun(rest)
        dot == IF d1 < Len(rest) /\ rest[d1 + 1] = "." THEN 1 ELSE 0
        d2 == DigitRun(SubSeq(rest, d1 + dot + 1, Len(rest)))
    IN  /\ i + Len(sTryAgainIn) - 1 <= Len(text)
        /\ SubSeq(text, i, i + Len(sTryAgainIn) - 1) = sTryAgainIn
        /\ d1 >= 1
        /\ d1 + dot + d2 < Len(rest)
        /\ rest[d1 + dot + d2 + 1] = "s"

\* wait_time of lines 1166-1167, in milliseconds
rate_limit_wait(error_msg) ==
    LET text == Lower(error_msg)
        at == {i \in 1..Len(text) : WaitMatchAt(text, i)}
    IN  IF at = {} THEN DefaultRateLimitWait
        ELSE LET i == CHOOSE j \in at : \A k \in at : j <= k
                 rest == SubSeq(text, i + Len(sTryAgainIn), Len(text))
                 d1 == DigitRun(rest)
                 dot == IF rest[d1 + 1] = "." THEN 1 ELSE 0
                 d2 == DigitRun(SubSeq(rest, d1 + dot + 1, Len(rest)))
                 frac == SubSeq(rest \o <<"0","0","0">>, d1 + dot + 1, d1 + dot + 3)
             IN  ToNat(SubSeq(rest, 1, d1)) * Millis
                 + (IF d2 = 0 THEN 0
                    ELSE ToNat(SubSeq(SubSeq(rest, d1 + dot + 1, d1 + dot + d2)
                                      \o <<"0","0","0">>, 1, 3)))

\* the factors 0.8 + 0.4 * random.random() may take, in tenths (line 1239)
Jitter == {8, 10, 11}
Tenth == 10

\* backoff_time after one more retry (line 1239)
next_backoff(backoff_time, factor) ==
    (Min(BackoffCap, backoff_time * 2) * factor) \div Tenth

\* raw_response: the dict at hand (the analysis, then photo_info) has the
\* key 'raw_response'
IdleItem ==
    [pc |-> "idle", retry_count |-> 0, last_error |-> PyNone,
     backoff_time |-> InitialBackoff, value |-> PyNone, error |-> PyNone,
     raw_response |-> FALSE]
IdleInner == [retry_count |-> 0, result_text_bound |-> FALSE]
NoHistory == [items |-> 0, attempts |-> 0, delays |-> <<>>, outcomes |-> <<>>]

RetryIdle ==
    /\ item = IdleItem
    /\ inner = IdleInner
    /\ error_count = 0
    /\ hist = NoHistory

(***************************************************************************)
(* The stages: photo_metadata.py (fetch), openai_analyzer.py (analysis),   *)
(* metadata_generator.py (resolve) and sharepoint_uploader.py (publish)    *)
(*                                                                         *)
(* A directory, local or in a library, is a set of files with distinct     *)
(* names.                                                                  *)
(***************************************************************************)
Put(dir, f) == {g \in dir : g.name # f.name} \cup {f}
Remove(dir, name) == {g \in dir : g.name # name}
HasFile(dir, name) == \E g \in dir : g.name = name
FileAt(dir, name) == CHOOSE g \in dir : g.name = name
Photo(name, content) == [name |-> name, content |-> content]

\* the orders in which a listing (os.listdir, get_photo_files) may give a
\* set of files
Orders(S) ==
    {o \in [1..Cardinality(S) -> S] : \A i, j \in DOMAIN o : o[i] = o[j] => i = j}

\* the process of the stage that runs
Runner == "p1"

\* generate_target_filename (metadata_generator.py lines 113-116)
generate_target_filename(original_filename, number) ==
    FileName(TargetStem, number, original_filename.ext)

\* the digits of the number in a target filename (line 79, line 116)
MaskWidth == 4

\* f"{number:04d}" (line 116): str(number), filled with zeros on the left
Padded(number) ==
    LET digits == Digits(number) IN
    IF Len(digits) >= MaskWidth THEN digits
    ELSE [i \in 1..(MaskWidth - Len(digits)) |-> "0"] \o digits

\* pattern.search(filename) of lines 79-85: 'Erni_Referenzfoto_', then
\* exactly four digits, then a dot
matches_mask(name) ==
    /\ name.stem = TargetStem
    /\ Len(Padded(name.num)) = MaskWidth

\* get_next_file_number (metadata_generator.py lines 68-94)
get_next_file_number(upload_dir, uploaded_dir) ==
    LET numbers == {f.name.num : f \in {g \in upload_dir \cup uploaded_dir :
                                          matches_mask(g.name)}}
    IN  IF numbers = {} THEN 1
        ELSE (CHOOSE n \in numbers : \A m \in numbers : m <= n) + 1

\* get_file_info_by_hash (registry.py lines 330-343)
get_file_info_by_hash(r, file_hash) == OGet(r.file_hashes.hashes, file_hash)

\* the photo find_processed_photos finds for an analysis file (lines
\* 556-568): the downloads directory first, then the processed one
photo_path(dirs, original_name) ==
    LET name == FileName(original_name.stem, original_name.num, ".jpg") IN
    IF HasFile(dirs.downloads, name) THEN {FileAt(dirs.downloads, name)}
    ELSE IF HasFile(dirs.processed, name) THEN {FileAt(dirs.processed, name)}
    ELSE {}

\* the lookup find_processed_photos makes through the filename mapping for
\* the name it took from an analysis file (lines 549-553)
mapped_is_uploaded(r, original_name) ==
    is_uploaded(r, get_mapped_filename(r, original_name).name)

\* find_processed_photos that takes every local photo, analysed or not
FindEveryPhoto(r, dirs) ==
    {f \in dirs.downloads \cup dirs.processed : ~is_uploaded(r, BaseName(f.name))}

\* find_processed_photos (lines 538-624): the photos of the analysis
\* directory that the registry does not report as uploaded
find_processed_photos(r, dirs) ==
    {f \in UNION {photo_path(dirs, original_name) : original_name \in dirs.analysis} :
        LET original_name == BaseName(f.name)
            file_hash == calculate_file_hash(f.name, f.content, TRUE)
        IN  /\ ~is_uploaded(r, original_name)
            /\ ~mapped_is_uploaded(r, original_name)
            /\ ~(/\ is_file_processed_by_hash(r, file_hash)
                 /\ is_uploaded(r, get_file_info_by_hash(r, file_hash).filename))}

\* get_files_for_upload (sharepoint_uploader.py lines 44-95)
get_files_for_upload(r, dirs) ==
    {f \in dirs.upload :
        /\ ~is_uploaded(r, f.name)
        /\ ~(f.original # f.name /\ is_uploaded(r, f.original))}

\* the photos process_photos_with_openai does not skip (lines 1443-1470)
photos_to_process(r, dirs, photos) ==
    SelectSeq(photos, LAMBDA f :
        ~(/\ BaseName(f.name) \in dirs.analysis
          /\ is_file_processed_by_hash(r, calculate_file_hash(f.name, f.content, TRUE))))

NoStage == [name |-> "none", todo |-> <<>>, returned |-> <<>>, last |-> [op |-> "none"]]

PipeIdle ==
    /\ origin = {}
    /\ local = [downloads |-> {}, processed |-> {}, analysis |-> {},
                upload |-> {}, uploaded |-> {}]
    /\ target = <<>>
    /\ stage = NoStage
    /\ plog = [arrivals |-> 0, extractions |-> 0, inferred |-> {}, twins |-> {}]

(***************************************************************************)
(* openai_analyzer.py: the prompt cache                                    *)
(*                                                                         *)
(* _prompt_cache is a module-level dict shared by the pool threads and the *)
(* main thread; no lock guards it.  A cache key is a record [kind, of]:    *)
(* "context" keys are built from the context of similar photos (line       *)
(* 1248), "exif" keys from the photo's name and modification time (line    *)
(* 133).                                                                   *)
(***************************************************************************)
\* len(_prompt_cache) above which the cache is trimmed (lines 1319, 1511)
CacheThreshold == 2
\* max_size of the calls trim_prompt_cache(50) (lines 1320, 1514)
TrimTo == 1
\* the completions after which the main thread trims (line 1511)
TrimEvery == 2

ContextKey(context) == [kind |-> "context", of |-> context]
ExifKey(photo) == [kind |-> "exif", of |-> photo]

\* trim_prompt_cache (lines 1575-1602)
trim_prompt_cache(cache, max_size) ==
    IF Len(cache) <= max_size THEN cache
    ELSE SubSeq(cache, Len(cache) - max_size + 1, Len(cache))

\* clear_prompt_cache (lines 1561-1572)
clear_prompt_cache(cache) == <<>>

\* the pool threads and the main thread, which runs the retry pass
MainThread == "main"
Threads == Workers \cup {MainThread}

IdleThread == [pc |-> "idle", photo |-> 0, key |-> ContextKey("")]
NoBatch ==
    [pc |-> "idle", batches |-> 0, futures |-> <<>>, todo |-> <<>>,
     results |-> <<>>, next |-> 1, completed_count |-> 0, failed_photos |-> <<>>,
     processed_photos |-> <<>>, iterating |-> 0]

CacheIdle ==
    /\ prompt_cache = <<>>
    /\ pool = [t \in Threads |-> IdleThread]
    /\ batch = NoBatch
    /\ generated = <<>>

(***************************************************************************)
(* auto_process.py: the stage scripts run in sequence                      *)
(***************************************************************************)
\* the list of line 105
Scripts == <<"metadata_schema.py", "photo_metadata.py", "openai_analyzer.py",
             "metadata_generator.py", "sharepoint_uploader.py">>

\* the exit codes of a script: success, failures, death by a signal
ExitCodes == {0, 1, 2, -9, -15}

\* run_script that reports success whatever the script did
RunScriptBlind(returncode) == 0
\* run_script (lines 33-70) on a script that exits with returncode:
\* subprocess.run(check=True) raises CalledProcessError unless it is 0
run_script(returncode) == IF returncode # 0 THEN returncode ELSE 0

\* result: what main returned, PyNone while it runs
IdleAuto ==
    [pc |-> "idle", runs |-> 0, ran |-> <<>>, result |-> PyNone,
     downloads |-> {}, cleaned |-> FALSE]

AutoIdle == auto = IdleAuto

(***************************************************************************)
(* utils/paths.py save_json_file and OpenAIRateLimiter._save_stats: a file *)
(* is written piece by piece, json.dump calling write() once per piece.    *)
(* A file is [exists, data, written]: the value the writer dumps and the   *)
(* number of its pieces that reached the file.                             *)
(***************************************************************************)
\* the pieces of one dump
Chunks == 2
\* update_token_usage saves every tenth request, and after a large one
SaveEvery == 10
LargeRequest == 1000

NoFile(empty) == [exists |-> FALSE, data |-> empty, written |-> 0]
ZeroUsage == [request_count |-> 0, total_tokens |-> 0]

\* the whole of the dumped value is in the file (or there is no file)
IsComplete(f) == f.exists => f.written = Chunks

\* open(path, 'w'): the file is created, or truncated to nothing
create(fs, path, data) ==
    [fs EXCEPT ![path] = [exists |-> TRUE, data |-> data, written |-> 0]]

\* one write() of json.dump
write(fs, path) == [fs EXCEPT ![path].written = @ + 1]

\* shutil.move(temp_path, path): os.rename replaces the target in one step
move(fs, src, dst) ==
    IF src = dst THEN fs
    ELSE [fs EXCEPT ![dst] = fs[src], ![src] = NoFile(fs[src].data)]

\* a save that dumps into the file it replaces
DumpInPlace(path) == path

\* save_json_file dumps into a NamedTemporaryFile of the target's directory
temp_path(path) == "temp"

\* a statistics save whose error reaches the caller
StatsSaveErrorsPropagate(failed) == failed

\* _save_stats catches every Exception and logs it
stats_save_raises(failed) == FALSE

\* update_token_usage: the counters after one response
count_usage(usage, tokens) ==
    [request_count |-> usage.request_count + 1,
     total_tokens |-> usage.total_tokens + tokens]

\* update_token_usage: whether this response saves the statistics
saves_stats(usage, tokens) ==
    usage.request_count % SaveEvery = 0 \/ tokens > LargeRequest

\* _load_registry / load_json_file: an unreadable file loads as empty
load_ledger(f) == IF f.exists /\ f.written = Chunks THEN f.data ELSE 0

\* _load_stats: an unreadable file leaves the counters of __init__
load_stats(f) == IF f.exists /\ f.written = Chunks THEN f.data ELSE ZeroUsage

IdleSaver ==
    [pc |-> "idle", op |-> "none", path |-> "none", binary |-> FALSE,
     saves |-> 0, ledger |-> 0, usage |-> ZeroUsage, previous |-> NoFile(0),
     last |-> [op |-> "none", before |-> ZeroUsage, tokens |-> 0,
               failed |-> FALSE, raised |-> FALSE]]

SaveIdle ==
    /\ fsys = [ledger |-> NoFile(0), temp |-> NoFile(0),
               stats |-> NoFile(ZeroUsage)]
    /\ saver = IdleSaver

(***************************************************************************)
(* utils/process_tracker.py: the ProcessTracker of the web application     *)
(*                                                                         *)
(* processes maps a pid to the status recorded for it ("absent": no        *)
(* entry); alive are the pids psutil reports as running; exit_code is what *)
(* Popen.returncode holds for a process that has ended.                    *)
(***************************************************************************)
\* the scripts the web application starts in one behaviour
MaxPids == 2
Pids == 1..MaxPids

\* returncode of a process that runs, that ended well, that failed
StillRuns == "none"
ReturnCodes == {"zero", "nonzero"}

\* the statuses get_active_processes takes as active (line 258)
ActiveStatuses == {"running", "starting"}

\* update_process(pid, status) (lines 133-163): only a pid that is tracked
update_process(processes, pid, status) ==
    IF processes[pid] # "absent" THEN [processes EXCEPT ![pid] = status]
    ELSE processes

\* the loop of get_all_processes (lines 216-226): every tracked pid that
\* _is_process_running reports as not running gets the status finished
mark_finished(processes, alive) ==
    [pid \in DOMAIN processes |->
        IF processes[pid] # "absent" /\ pid \notin alive
        THEN "finished" ELSE processes[pid]]

TrackIdle ==
    tracker = [processes |-> [pid \in Pids |-> "absent"],
               alive |-> {},
               exit_code |-> [pid \in Pids |-> StillRuns],
               reported |-> {},
               last |-> "none"]

MoreIdle == AutoIdle /\ SaveIdle /\ TrackIdle

(***************************************************************************)
(* Resolution: one action per call                                         *)
(***************************************************************************)
ValIdle ==
    /\ vcall = [op |-> "none"]
    /\ vret = [op |-> "none"]

\* validate_metadata_field on a Choice field
CallValidateChoice ==
    /\ vcall.op = "none"
    /\ \E choices \in ChoiceLists, value \in ScalarCandidates \cup ListCandidates :
        LET field == Field("Category", "Projektkategorie", "Choice", TRUE, choices) IN
        /\ vcall' = [op |-> "validate", field |-> field, value |-> value]
        /\ vret' = validate_metadata_field(field.internal_name, value, field)
        /\ UNCHANGED NotVal

\* validate_metadata_field on a MultiChoice field
CallValidateMultiChoice ==
    /\ vcall.op = "none"
    /\ \E choices \in ChoiceLists, value \in ScalarCandidates \cup ListCandidates :
        LET field == Field("Material", "Material", "MultiChoice", FALSE, choices) IN
        /\ vcall' = [op |-> "validate", field |-> field, value |-> value]
        /\ vret' = validate_metadata_field(field.internal_name, value, field)
        /\ UNCHANGED NotVal

\* validate_metadata_field on a field of another type
CallValidateOther ==
    /\ vcall.op = "none"
    /\ \E type \in {"Text", "Note", "DateTime", "User", "Boolean"},
       value \in ScalarCandidates \cup ListCandidates :
        LET field == Field("Title", "Titel", type, TRUE, <<>>) IN
        /\ vcall' = [op |-> "validate", field |-> field, value |-> value]
        /\ vret' = validate_metadata_field(field.internal_name, value, field)
        /\ UNCHANGED NotVal

\* generate_metadata_for_upload on one photo
CallGenerate ==
    /\ vcall.op = "none"
    /\ \E schema \in Schemas, analysis \in Analyses, exif \in ExifSets, geo \in GeoAnswers :
        LET photo_info == [name |-> PhotoName, analysis |-> analysis, metadata |-> exif] IN
        /\ vcall' = [op |-> "generate", schema |-> schema, photo_info |-> photo_info,
                     geo |-> geo]
        /\ vret' = generate_metadata_for_upload(photo_info, schema, TargetName, geo)
        /\ UNCHANGED NotVal

\* the caller has taken the result; the next call can be made
TakeResult ==
    /\ vcall.op # "none"
    /\ vcall' = [op |-> "none"]
    /\ vret' = [op |-> "none"]
    /\ UNCHANGED NotVal

ValNext ==
    \/ TakeResult
    \/ CallValidateChoice
    \/ CallValidateMultiChoice
    \/ CallValidateOther
    \/ CallGenerate

ValInit == ValIdle /\ RegIdle /\ LimIdle /\ RetryIdle /\ PipeIdle /\ CacheIdle /\ MoreIdle

SpecResolve == ValInit /\ [][ValNext]_vars

(***************************************************************************)
(* Claims on the resolution                                                *)
(***************************************************************************)
IsChoiceCall == vcall.op = "validate" /\ vcall.field.type = "Choice"
IsMultiCall == vcall.op = "validate" /\ vcall.field.type = "MultiChoice"

\* a choice and a candidate match loosely: one contains the other, both
\* lower-cased
Loosely(candidate, choice) ==
    \/ Contains(Lower(candidate), Lower(choice))
    \/ Contains(Lower(choice), Lower(candidate))

\* C6: on a Choice field validate_metadata_field returns the candidate itself
\* when it is one of the allowed values; otherwise, for a non-empty string, the
\* first allowed value in schema order that contains the candidate or is
\* contained in it, case-insensitively; otherwise the value is invalid.  A value
\* reported valid is a member of the allowed values.
C6_ChoiceValidation ==
    IsChoiceCall =>
        LET choices == vcall.field.choices
            value == vcall.value
            exact == IsStr(value) /\ \E i \in DOMAIN choices : choices[i] = value.s
            loose == {i \in DOMAIN choices :
                        IsStr(value) /\ value.s # <<>> /\ Loosely(value.s, choices[i])}
        IN  /\ exact => vret = [valid |-> TRUE, value |-> value]
            /\ (~exact /\ loose # {}) =>
                    /\ vret.valid
                    /\ \E i \in loose : /\ \A j \in loose : i <= j
                                        /\ vret.value = PyStr(choices[i])
            /\ (~exact /\ loose = {}) => (~vret.valid /\ vret.value = PyNone)
            /\ vret.valid => (IsStr(vret.value) /\ InList(vret.value.s, choices))

\* C6 witness: 'residential building' against [Residential, Industrial] gave
\* 'Residential'
C6_Witness ==
    /\ IsChoiceCall
    /\ vcall.field.choices = <<sResidential, sIndustrial>>
    /\ vcall.value = PyStr(sResidentialBuilding)
    /\ vret = [valid |-> TRUE, value |-> PyStr(sResidential)]

\* what the elements of a MultiChoice candidate give when each is validated as
\* a Choice value and the rejected ones are dropped
RECURSIVE EachAsChoice(_, _)
EachAsChoice(values, choices) ==
    IF values = <<>> THEN <<>>
    ELSE LET one == ValidateChoice(values[1], choices) IN
         (IF one.valid THEN <<one.value>> ELSE <<>>) \o EachAsChoice(Tail(values), choices)

\* C7: on a MultiChoice field validate_metadata_field accepts a string or a
\* list, validates each element as a Choice value would be validated, drops the
\* elements that do not match and returns the matched canonical values in input
\* order; an element Choice validation rejects (the empty string included) is
\* never turned into an allowed value.
C7_MultiChoiceAsChoice ==
    (IsMultiCall /\ (IsStr(vcall.value) \/ IsList(vcall.value))) =>
        LET values == IF IsStr(vcall.value) THEN <<vcall.value>> ELSE vcall.value.l IN
        /\ vret.valid
        /\ vret.value = PyList(EachAsChoice(values, vcall.field.choices))

\* C5: the record generate_metadata_for_upload returns holds every required
\* schema field outside the skip-list, with a validated value or the sentinel
\* "none"; such a field is never absent.
C5_RequiredFieldsPresent ==
    (vcall.op = "generate" /\ ~vret.raised) =>
        \A i \in DOMAIN vcall.schema.fields :
            LET field == vcall.schema.fields[i] IN
            (field.required /\ field.internal_name \notin SkipFields) =>
                /\ HasKey(vret.metadata, field.internal_name)
                /\ \/ vret.metadata[field.internal_name] = PyStr(sNone)
                   \/ validate_metadata_field(field.internal_name,
                          vret.metadata[field.internal_name], field).valid

(***************************************************************************)
(* Registry: processes and their calls                                     *)
(***************************************************************************)
\* the most registry calls made in one behaviour
MaxCalls == 2

\* attributes a caller passes with a stage record
Attrs == {"m1", "m2"}
TargetUrl == "/sites/target/Erni_Referenzfoto_0001.jpg"
TargetOne == FileName(TargetStem, 1, ".jpg")
RegNames == {NameA, NameB}

\* the registry calls made so far, kept in the call record
CallsMade == IF rcall.op = "none" THEN 0 ELSE rcall.n

\* what every call record holds: the operation, the process, the key, the
\* attributes passed, whether the write succeeded, and from before the call:
\* whether the key was recorded, the keys recorded and the keys on disk
CallRecord(op, p, key, attrs, ok, dict_before, disk_before) ==
    [op |-> op, p |-> p, key |-> key, attrs |-> attrs, ok |-> ok,
     had |-> OHas(dict_before, key), keys_before |-> OKeys(dict_before),
     disk_keys_before |-> OKeys(disk_before), n |-> CallsMade + 1,
     raised |-> save_raises(ok)]

\* get_registry() in a process that has none yet: FileRegistry()
StartProcess(p) ==
    /\ ~reg[p].loaded
    /\ \E bad \in {{}} \cup {{f} : f \in {g \in RegistryFiles : disk[g].exists}} :
        reg' = [reg EXCEPT ![p] = NewFileRegistry(Damaged(disk, bad))]
    /\ UNCHANGED <<disk, rcall>>

\* the process ends; its registry object is gone
ExitProcess(p) ==
    /\ reg[p].loaded
    /\ reg' = [reg EXCEPT ![p] = NoRegistry]
    /\ UNCHANGED <<disk, rcall>>

\* mark_as_processed(filename, metadata) (lines 112-125)
MarkAsProcessed(p) ==
    \E filename \in RegNames, metadata \in Attrs, ok \in BOOLEAN :
        LET r == mark_as_processed(reg[p], filename, metadata) IN
        /\ reg[p].loaded /\ CallsMade < MaxCalls
        /\ reg' = [reg EXCEPT ![p] = r]
        /\ disk' = save_registry(disk, "processed_file", r.processed, ok)
        /\ rcall' = CallRecord("mark_as_processed", p, filename, [metadata |-> metadata], ok,
                               reg[p].processed.files, disk.processed_file.data.files)

\* mark_as_uploaded(filename, target_url) (lines 127-140)
MarkAsUploaded(p) ==
    \E filename \in RegNames, ok \in BOOLEAN :
        LET r == mark_as_uploaded(reg[p], filename, TargetUrl) IN
        /\ reg[p].loaded /\ CallsMade < MaxCalls
        /\ reg' = [reg EXCEPT ![p] = r]
        /\ disk' = save_registry(disk, "uploaded_file", r.uploaded, ok)
        /\ rcall' = CallRecord("mark_as_uploaded", p, filename, [target_url |-> TargetUrl], ok,
                               reg[p].uploaded.files, disk.uploaded_file.data.files)

\* register_file_hash(file_path, metadata) (lines 306-328)
RegisterFileHash(p) ==
    \E filename \in RegNames, content \in Contents, metadata \in Attrs, ok \in BOOLEAN :
        LET file_hash == calculate_file_hash(filename, content, TRUE)
            r == register_file_hash(reg[p], file_hash, filename, metadata)
        IN  /\ reg[p].loaded /\ CallsMade < MaxCalls
            /\ reg' = [reg EXCEPT ![p] = r]
            /\ disk' = save_registry(disk, "file_hashes_file", r.file_hashes, ok)
            /\ rcall' = CallRecord("register_file_hash", p, file_hash,
                                   [filename |-> filename, metadata |-> metadata], ok,
                                   reg[p].file_hashes.hashes,
                                   disk.file_hashes_file.data.hashes)

\* map_filename(original_filename, target_filename) (lines 232-250)
MapFilename(p) ==
    \E filename \in RegNames, ok \in BOOLEAN :
        LET r == map_filename(reg[p], filename, TargetOne) IN
        /\ reg[p].loaded /\ CallsMade < MaxCalls
        /\ reg' = [reg EXCEPT ![p] = r]
        /\ disk' = save_registry(disk, "processed_file", r.processed, ok)
        /\ rcall' = CallRecord("map_filename", p, filename, TargetOne, ok,
                               reg[p].processed.filename_mapping,
                               disk.processed_file.data.filename_mapping)

RegInit == RegIdle /\ ValIdle /\ LimIdle /\ RetryIdle /\ PipeIdle /\ CacheIdle /\ MoreIdle

RegNext ==
    \E p \in Procs :
        \/ StartProcess(p) /\ UNCHANGED NotReg
        \/ ExitProcess(p) /\ UNCHANGED NotReg
        \/ MarkAsProcessed(p) /\ UNCHANGED NotReg
        \/ MarkAsUploaded(p) /\ UNCHANGED NotReg
        \/ RegisterFileHash(p) /\ UNCHANGED NotReg
        \/ MapFilename(p) /\ UNCHANGED NotReg

SpecRegistry == RegInit /\ [][RegNext]_vars

(***************************************************************************)
(* Claims on the registry                                                  *)
(***************************************************************************)
StageOps == {"mark_as_processed", "mark_as_uploaded", "register_file_hash"}

\* the dict a stage call writes, in a registry object and in the files
StageDict(r, op) ==
    CASE op = "mark_as_processed" -> r.processed.files
      [] op = "mark_as_uploaded" -> r.uploaded.files
      [] op = "register_file_hash" -> r.file_hashes.hashes
StageFileDict(files, op) ==
    CASE op = "mark_as_processed" -> files.processed_file.data.files
      [] op = "mark_as_uploaded" -> files.uploaded_file.data.files
      [] op = "register_file_hash" -> files.file_hashes_file.data.hashes

\* C9: recording a stage is idempotent: after mark_as_processed,
\* mark_as_uploaded or register_file_hash the caller's registry holds exactly
\* one entry for the key, carrying the attributes of this call, and a call on a
\* key already recorded leaves the set of recorded keys as it was; the file
\* written holds the same entries.
C9_RecordIdempotent ==
    [][(rcall' # rcall /\ rcall'.op \in StageOps) =>
         LET d == StageDict(reg'[rcall'.p], rcall'.op) IN
         /\ OCount(d, rcall'.key) = 1
         /\ OGet(d, rcall'.key) = rcall'.attrs
         /\ OKeys(d) = rcall'.keys_before \cup {rcall'.key}
         /\ rcall'.had => (OKeys(d) = rcall'.keys_before /\ Len(d) = Cardinality(rcall'.keys_before))
         /\ rcall'.ok => StageFileDict(disk', rcall'.op) = d]_vars

\* C9 witness: a second mark_as_processed on a recorded key, with its
\* attributes in the single entry of that key
C9_Witness ==
    /\ rcall.op = "mark_as_processed" /\ rcall.had /\ rcall.n = MaxCalls
    /\ reg[rcall.p].loaded
    /\ OCount(reg[rcall.p].processed.files, rcall.key) = 1
    /\ OGet(reg[rcall.p].processed.files, rcall.key) = rcall.attrs
    /\ rcall.attrs = [metadata |-> "m2"]

\* C10: recording is safe under concurrency: after a process has recorded an
\* item and written the registry file, the file holds that item and every item
\* it held before, whichever other process recorded them.
C10_NoLostRecord ==
    (rcall.op \in StageOps /\ rcall.ok) =>
        (rcall.disk_keys_before \cup {rcall.key}) \subseteq OKeys(StageFileDict(disk, rcall.op))

(***************************************************************************)
(* Rate limiter: the refill thread, the clock and the callers              *)
(***************************************************************************)
\* the last second of a behaviour
MaxTime == 60
\* the seconds that pass between two moments at which threads run
TickSeconds == 20
\* what a call may ask for: the usual estimate, or more than a full bucket
Needs == {CallTokens, MaxTokensPerMinute + 1}

\* the admissions a rolling minute that ends now still holds
InWindow(log, time) == SelectSeq(log, LAMBDA a : a.t > time - SecondsPerMinute)

\* time passes; the refill thread has run since the last time it did
Tick ==
    /\ now + TickSeconds <= MaxTime
    /\ lim.last_refill_time = now
    /\ now' = now + TickSeconds
    /\ admitted' = InWindow(admitted, now + TickSeconds)
    /\ UNCHANGED <<lim, callers>>

\* one round of the refill thread (lines 378-394): it has slept a second
Refill ==
    /\ now - lim.last_refill_time >= 1
    /\ lim' = refill_tokens(lim, now)
    /\ UNCHANGED <<now, callers, admitted>>

\* wait_for_capacity(tokens_needed) is called (lines 406-407)
CallWait(w) ==
    /\ callers[w].pc = "idle"
    /\ \E tokens_needed \in Needs :
        callers' = [callers EXCEPT ![w] =
            [pc |-> "check", tokens_needed |-> tokens_needed, start_time |-> now,
             since |-> 0]]
    /\ UNCHANGED <<lim, now, admitted>>

\* one round of the while loop (lines 409-420): admitted, or sent to sleep
CheckCapacity(w) ==
    /\ callers[w].pc = "check"
    /\ now - callers[w].start_time < MaxWaitTime
    /\ IF has_capacity(lim, callers[w].tokens_needed)
       THEN /\ lim' = consume(lim, callers[w].tokens_needed)
            /\ callers' = [callers EXCEPT ![w] = IdleCaller]
            /\ admitted' = Append(admitted, [t |-> now, tokens |-> callers[w].tokens_needed])
       ELSE /\ callers' = [callers EXCEPT ![w].pc = "sleep", ![w].since = now]
            /\ UNCHANGED <<lim, admitted>>
    /\ UNCHANGED now

\* time.sleep(wait_time) returns (line 420)
WakeUp(w) ==
    /\ callers[w].pc = "sleep"
    /\ slept_enough(callers[w].since, now, callers[w].tokens_needed)
    /\ callers' = [callers EXCEPT ![w].pc = "check", ![w].since = 0]
    /\ UNCHANGED <<lim, now, admitted>>

\* the loop ends after max_wait_time: wait_for_capacity returns False
\* (lines 422-423)
GiveUp(w) ==
    /\ callers[w].pc = "check"
    /\ now - callers[w].start_time >= MaxWaitTime
    /\ callers' = [callers EXCEPT ![w] = IdleCaller]
    /\ UNCHANGED <<lim, now, admitted>>

LimInit == LimIdle /\ ValIdle /\ RegIdle /\ RetryIdle /\ PipeIdle /\ CacheIdle /\ MoreIdle

LimNext ==
    \/ Tick /\ UNCHANGED NotLim
    \/ Refill /\ UNCHANGED NotLim
    \/ \E w \in Workers :
        \/ CallWait(w) /\ UNCHANGED NotLim
        \/ CheckCapacity(w) /\ UNCHANGED NotLim
        \/ WakeUp(w) /\ UNCHANGED NotLim
        \/ GiveUp(w) /\ UNCHANGED NotLim

SpecLimiter == LimInit /\ [][LimNext]_vars

(***************************************************************************)
(* Claims on the rate limiter                                              *)
(***************************************************************************)
RECURSIVE SumTokens(_)
SumTokens(log) == IF log = <<>> THEN 0 ELSE log[1].tokens + SumTokens(Tail(log))

\* C3: under concurrent callers each requesting C tokens, with the refill
\* running, the token demand admitted within a rolling minute never exceeds
\* max_tokens_per_minute by more than one call's estimate, and the requests
\* admitted within it never exceed requests_per_minute by more than one.
C3_RateConservation ==
    /\ SumTokens(InWindow(admitted, now)) <= MaxTokensPerMinute + CallTokens
    /\ Len(InWindow(admitted, now)) <= RequestsPerMinute + 1

(***************************************************************************)
(* Retry: one item through process_photo_with_openai                       *)
(***************************************************************************)
\* the items one behaviour processes
MaxItems == 1

\* what one round of analyze_photo_with_openai may meet
BackendErrors == {eTimeout, eConnection, eRateLimit, eInvalidKey}
Outcomes ==
    {[kind |-> "no_capacity"], [kind |-> "ok"], [kind |-> "wrong_function"],
     [kind |-> "bad_arguments"], [kind |-> "bad_content"]}
    \cup {[kind |-> "error", message |-> m] : m \in BackendErrors}
\* what save_analysis_to_json may meet
SaveOutcomes == {PyNone, PyStr(eDiskFull), PyStr(eShareLost)}

Slept(h, ms) == [h EXCEPT !.delays = Append(@, ms)]

\* process_photo_with_openai is called (lines 1229-1231)
ProcessPhoto ==
    /\ item.pc \in {"idle", "done"}
    /\ hist.items < MaxItems
    /\ item' = [IdleItem EXCEPT !.pc = "loop"]
    /\ inner' = IdleInner
    /\ hist' = [NoHistory EXCEPT !.items = hist.items + 1]
    /\ UNCHANGED error_count

\* the head of the outer loop (lines 1233-1239), up to the call of
\* analyze_photo_with_openai; after the loop, lines 1350-1351
OuterRound ==
    /\ item.pc = "loop"
    /\ IF item.retry_count < max_retries
       THEN /\ IF item.retry_count > 0
               THEN \E factor \in Jitter :
                    /\ hist' = Slept(hist, item.backoff_time)
                    /\ item' = [item EXCEPT !.pc = "analyze",
                                    !.backoff_time = next_backoff(@, factor)]
               ELSE /\ item' = [item EXCEPT !.pc = "analyze"]
                    /\ UNCHANGED hist
            /\ inner' = IdleInner
       ELSE /\ item' = [item EXCEPT !.pc = "done",
                            !.error = PyStr(eExceeded \o PyStrOf(item.last_error))]
            /\ UNCHANGED <<inner, hist>>
    /\ UNCHANGED error_count

\* the handler of lines 1155-1183 for an exception with this message
\* [raised, message, ret, sleeps, retry]
handle_exception(error_msg, count) ==
    LET rec == record_error(count)
        is_rate_limit_error == Contains(Lower(<<"r","a","t","e"," ","l","i","m","i","t">>),
                                        Lower(error_msg))
        waited == IF is_rate_limit_error
                  THEN <<rate_limit_wait(error_msg) + RateLimitBuffer>> ELSE <<>>
    IN  IF rec.raised
        THEN [to |-> "raise", message |-> rec.message, sleeps |-> <<>>]
        ELSE IF inner.retry_count = max_retries - 1
        THEN [to |-> "return", message |-> error_msg, sleeps |-> waited]
        ELSE [to |-> "retry", message |-> error_msg,
              sleeps |-> IF is_rate_limit_error THEN waited ELSE <<RetryPause>>]

\* the handler of lines 1121-1153 for output that is no JSON
handle_decode_error(result_text_bound) ==
    IF ~result_text_bound
    THEN [to |-> "except", message |-> eUnbound, sleeps |-> <<>>]
    ELSE IF inner.retry_count = max_retries - 1
    THEN [to |-> "return", message |-> eParse, sleeps |-> <<>>]
    ELSE [to |-> "retry", message |-> eParse, sleeps |-> <<RetryPause>>]

\* where one round of the inner loop ends, before the handler of 1155
first_handler(outcome, result_text_bound) ==
    CASE outcome.kind = "ok" -> [to |-> "ok", message |-> <<>>, sleeps |-> <<>>]
      [] outcome.kind = "no_capacity" -> [to |-> "except", message |-> eCapacity, sleeps |-> <<>>]
      [] outcome.kind = "error" -> [to |-> "except", message |-> outcome.message, sleeps |-> <<>>]
      [] outcome.kind = "wrong_function" -> [to |-> "except", message |-> eWrongFunction, sleeps |-> <<>>]
      [] OTHER -> handle_decode_error(result_text_bound)

\* one round of the loop of analyze_photo_with_openai (lines 950-1183)
InnerRound ==
    /\ item.pc = "analyze"
    /\ inner.retry_count < max_retries
    /\ \E outcome \in Outcomes :
        LET bound == inner.result_text_bound \/ outcome.kind = "bad_content"
            first == first_handler(outcome, bound)
            excepted == first.to = "except"
            last == IF excepted THEN handle_exception(first.message, error_count)
                    ELSE first
        IN  /\ error_count' = IF excepted THEN error_count + 1 ELSE error_count
            /\ hist' = [hist EXCEPT
                    !.attempts = IF outcome.kind = "no_capacity" THEN @ ELSE @ + 1,
                    !.outcomes = Append(@, outcome),
                    !.delays = @ \o last.sleeps]
            /\ inner' = [retry_count |-> IF last.to = "retry"
                                         THEN inner.retry_count + 1
                                         ELSE inner.retry_count,
                         result_text_bound |-> bound]
            /\ item' = CASE last.to = "ok" ->
                            [item EXCEPT !.pc = "returned", !.value = PyNone]
                        [] last.to = "return" ->
                            \* the dict of lines 1127-1145 has 'raw_response',
                            \* the one of line 1174 has not
                            [item EXCEPT !.pc = "returned", !.value = PyStr(last.message),
                                         !.raw_response = (first.to = "return")]
                        [] last.to = "raise" ->
                            [item EXCEPT !.pc = "raised", !.value = PyStr(last.message)]
                        [] OTHER -> item

\* the analysis is back (lines 1277-1320): an error in it is retried or
\* ends the item, a result is saved
OuterResult ==
    /\ item.pc = "returned"
    /\ IF item.value # PyNone
       THEN item' = IF /\ AnyIn(retryable_errors, item.value.s)
                       /\ item.retry_count < max_retries - 1
                     THEN [item EXCEPT !.pc = "loop", !.last_error = item.value,
                                !.retry_count = @ + 1, !.value = PyNone,
                                !.raw_response = FALSE]
                     ELSE [item EXCEPT !.pc = "done", !.error = item.value,
                                !.value = PyNone]
       ELSE \E saved \in SaveOutcomes :
            item' = IF saved = PyNone
                    THEN [item EXCEPT !.pc = "done"]
                    ELSE [item EXCEPT !.pc = "raised", !.value = saved]
    /\ UNCHANGED <<inner, error_count, hist>>

\* the handler of the outer loop (lines 1324-1347)
OuterExcept ==
    /\ item.pc = "raised"
    /\ item' = IF /\ AnyIn(retryable_exceptions, item.value.s)
                  /\ item.retry_count < max_retries - 1
               THEN [item EXCEPT !.pc = "loop", !.last_error = item.value,
                          !.retry_count = @ + 1, !.value = PyNone]
               ELSE [item EXCEPT !.pc = "done", !.last_error = item.value,
                          !.error = item.value, !.value = PyNone]
    /\ UNCHANGED <<inner, error_count, hist>>

RetryInit == RetryIdle /\ ValIdle /\ RegIdle /\ LimIdle /\ PipeIdle /\ CacheIdle /\ MoreIdle

RetryNext ==
    \/ ProcessPhoto /\ UNCHANGED NotRetry
    \/ OuterRound /\ UNCHANGED NotRetry
    \/ InnerRound /\ UNCHANGED NotRetry
    \/ OuterResult /\ UNCHANGED NotRetry
    \/ OuterExcept /\ UNCHANGED NotRetry

SpecRetry == RetryInit /\ [][RetryNext]_vars

(***************************************************************************)
(* Claims on the retry loops                                               *)
(***************************************************************************)
\* the errors of the backend that are transient
TransientErrors == {eTimeout, eConnection, eRateLimit}

\* every round of the item called the backend, which failed transiently
AlwaysTransient ==
    /\ hist.outcomes # <<>>
    /\ \A i \in DOMAIN hist.outcomes :
        /\ hist.outcomes[i].kind = "error"
        /\ hist.outcomes[i].message \in TransientErrors

NonDecreasing(seq) == \A i \in 1..(Len(seq) - 1) : seq[i] <= seq[i + 1]

\* C4: when the backend fails with a transient error on every attempt, the
\* item ends after exactly max_retries attempts, the delays between them
\* never decrease, and the item's error preserves the backend's last error.
C4_TransientRetries ==
    (item.pc = "done" /\ AlwaysTransient) =>
        /\ hist.attempts = max_retries
        /\ NonDecreasing(hist.delays)
        /\ item.error # PyNone
        /\ Contains(hist.outcomes[Len(hist.outcomes)].message, item.error.s)

(***************************************************************************)
(* The stages, each a process of its own with its own FileRegistry         *)
(***************************************************************************)
\* the photos put into the source library, the highest target number and
\* the uploads the target library receives in one behaviour
MaxArrivals == 2
MaxNumber == 2
MaxUploads == 2

RunnerRegistry == reg[Runner]
SetRunner(r) == [reg EXCEPT ![Runner] = r]

\* somebody puts a photo into the source library
Arrive ==
    /\ stage.name = "none"
    /\ plog.arrivals < MaxArrivals
    /\ \E name \in RegNames, content \in Contents :
        origin' = Put(origin, Photo(name, content))
    /\ plog' = [plog EXCEPT !.arrivals = @ + 1]
    /\ UNCHANGED <<local, target, stage, disk, reg>>

\* photo_metadata.py starts: the source library is listed and
\* process_photo_batch gets its registry (lines 472-490, 365-368)
StartFetch ==
    /\ stage.name = "none"
    /\ origin # {}
    /\ \E photo_files \in Orders(origin) :
        stage' = [NoStage EXCEPT !.name = "fetch", !.todo = photo_files]
    /\ reg' = SetRunner(NewFileRegistry(disk))
    /\ plog' = [plog EXCEPT !.twins = @ \cup
                    {f.content : f \in {g \in origin :
                        \E h \in origin : h.name # g.name /\ h.content = g.content}}]
    /\ UNCHANGED <<origin, local, target, disk>>

\* one round of the loop of process_photo_batch (lines 379-464)
FetchStep ==
    /\ stage.name = "fetch"
    /\ stage.todo # <<>>
    /\ LET file_info == Head(stage.todo)
            file_hash == calculate_file_hash(file_info.name, file_info.content, TRUE)
            left == Remove(origin, file_info.name)
            r1 == register_file_hash(RunnerRegistry, file_hash, file_info.name, "exif")
            r2 == mark_as_processed(r1, file_info.name, "exif")
        IN  IF is_file_processed_by_hash(RunnerRegistry, file_hash)
            THEN /\ origin' = left
                 /\ local' = [local EXCEPT !.downloads = Remove(@, file_info.name)]
                 /\ stage' = [stage EXCEPT !.todo = Tail(@),
                        !.last = [op |-> "fetch", name |-> file_info.name,
                                  hash |-> file_hash, skipped |-> TRUE]]
                 /\ UNCHANGED <<plog, disk, reg>>
            ELSE /\ origin' = left
                 /\ local' = [local EXCEPT !.downloads = Remove(@, file_info.name),
                                           !.processed = Put(@, file_info)]
                 /\ plog' = [plog EXCEPT !.extractions = @ + 1]
                 /\ reg' = SetRunner(r2)
                 /\ disk' = save_registry(
                        save_registry(disk, "file_hashes_file", r1.file_hashes, TRUE),
                        "processed_file", r2.processed, TRUE)
                 /\ stage' = [stage EXCEPT !.todo = Tail(@),
                        !.returned = Append(@, file_info.name),
                        !.last = [op |-> "fetch", name |-> file_info.name,
                                  hash |-> file_hash, skipped |-> FALSE]]
    /\ UNCHANGED target

\* openai_analyzer.py starts: the downloads and the processed directories
\* are listed (lines 1662-1687) and process_photos_with_openai sets aside
\* the photos analysed before (lines 1443-1470)
StartAnalyze ==
    /\ stage.name = "none"
    /\ local.downloads \cup local.processed # {}
    /\ \E d \in Orders(local.downloads), q \in Orders(local.processed) :
        stage' = [NoStage EXCEPT !.name = "analyze",
                    !.todo = photos_to_process(NewFileRegistry(disk), local, d \o q)]
    /\ reg' = SetRunner(NewFileRegistry(disk))
    /\ UNCHANGED <<origin, local, target, plog, disk>>

\* one photo through process_photo_with_openai and the registration that
\* follows (lines 1488-1522)
AnalyzeStep ==
    /\ stage.name = "analyze"
    /\ stage.todo # <<>>
    /\ \E analysed \in BOOLEAN :
        LET photo == Head(stage.todo)
            file_hash == calculate_file_hash(photo.name, photo.content, TRUE)
            r == register_file_hash(RunnerRegistry, file_hash, photo.name, "analysis")
        IN  /\ plog' = [plog EXCEPT !.inferred = @ \cup {photo}]
            /\ stage' = [stage EXCEPT !.todo = Tail(@),
                    !.last = [op |-> "analyze", name |-> photo.name,
                              hash |-> file_hash, skipped |-> FALSE]]
            /\ IF analysed
               THEN /\ local' = [local EXCEPT !.analysis = @ \cup {BaseName(photo.name)}]
                    /\ reg' = SetRunner(r)
                    /\ disk' = save_registry(disk, "file_hashes_file", r.file_hashes, TRUE)
               ELSE UNCHANGED <<local, reg, disk>>
    /\ UNCHANGED <<origin, target>>

\* metadata_generator.py runs (lines 630-666): every photo found gets the
\* next number and is copied into the upload directory with its metadata
\* the schema and the inference output of the photos the stages handle: the
\* schema has the tracking field, the inference supplies a value for it
StageSchema ==
    [fields |-> <<Field("Title", "Titel", "Text", TRUE, <<>>),
                  Field("OriginalName", "OriginalName", "Text", FALSE, <<>>)>>]
StageAnalysis == [k \in {"Titel", "OriginalName"} |-> PyStr(sBern)]

\* prepare_photo_for_upload (lines 474-523): the file put in the upload
\* directory, original being the OriginalName of its metadata file
prepare_photo_for_upload(photo, file_number) ==
    LET target_filename == generate_target_filename(photo.name, file_number)
        photo_info == [name |-> photo.name, analysis |-> StageAnalysis,
                       metadata |-> EmptyDict]
        made == generate_metadata_for_upload(photo_info, StageSchema, target_filename, PyNone)
    IN  [name |-> target_filename, content |-> photo.content,
         original |-> made.metadata["OriginalName"]]

\* the loop of lines 645-648 when prepare_photo_for_upload raises on the
\* photo at position failing (0: on none), for instance in copy_file: the
\* exception leaves the loop for the handler of line 664
PreparedBefore(processed_photos, failing) ==
    IF failing = 0 THEN DOMAIN processed_photos
    ELSE {i \in DOMAIN processed_photos : i < failing}

\* metadata_generator.py run as a script (lines 630-666)
ResolveRun ==
    /\ stage.name = "none"
    /\ LET found == find_processed_photos(NewFileRegistry(disk), local)
           next_number == get_next_file_number(local.upload, local.uploaded)
       IN  /\ found # {}
           /\ next_number + Cardinality(found) - 1 <= MaxNumber
           /\ \E processed_photos \in Orders(found),
                 failing \in 0..Cardinality(found) :
                /\ local' = [local EXCEPT !.upload = @ \cup
                    {prepare_photo_for_upload(processed_photos[i], next_number + i - 1) :
                     i \in PreparedBefore(processed_photos, failing)}]
                /\ stage' = [NoStage EXCEPT !.last =
                        [op |-> "resolve",
                         failed |-> IF failing = 0 THEN {} ELSE {processed_photos[failing]}]]
    /\ UNCHANGED <<origin, target, plog, disk, reg>>

\* sharepoint_uploader.py starts: get_files_for_upload lists the upload
\* directory
StartPublish ==
    /\ stage.name = "none"
    /\ get_files_for_upload(NewFileRegistry(disk), local) # {}
    /\ \E files \in Orders(get_files_for_upload(NewFileRegistry(disk), local)) :
        stage' = [NoStage EXCEPT !.name = "publish", !.todo = files]
    /\ reg' = SetRunner(NewFileRegistry(disk))
    /\ UNCHANGED <<origin, local, target, plog, disk>>

\* what the target library may do with an upload: take it, refuse it, or
\* take the file and fail on its metadata
UploadOutcomes == {"taken", "refused", "metadata_failed"}

\* the target library takes the file with its metadata and fails on the
\* JSON file, which is uploaded after the photo was moved to the uploaded
\* directory (lines 160-173)
LateOutcomes == {"sidecar_failed"}

\* the outcomes after which the photo has left the upload directory
moved(outcome) == outcome \in {"taken", "sidecar_failed"}

\* upload_file_to_sharepoint (lines 101-234)
Upload(outcomes) ==
    /\ stage.name = "publish"
    /\ stage.todo # <<>>
    /\ \E outcome \in outcomes :
        LET file_info == Head(stage.todo)
            filename == file_info.name
            original_filename == file_info.original
            r1 == mark_as_uploaded(RunnerRegistry, filename, filename)
            r2 == IF original_filename # filename
                  THEN map_filename(mark_as_uploaded(r1, original_filename, filename),
                                    original_filename, filename)
                  ELSE r1
        IN  /\ outcome # "refused" => Len(target) < MaxUploads
            /\ target' = IF outcome = "refused" THEN target
                         ELSE Append(target, file_info)
            /\ stage' = [stage EXCEPT !.todo = Tail(@),
                    !.returned = IF outcome = "taken" THEN Append(@, filename) ELSE @,
                    !.last = [op |-> "publish", name |-> filename,
                              hash |-> outcome, skipped |-> FALSE]]
            /\ local' = IF moved(outcome)
                         THEN [local EXCEPT !.upload = Remove(@, filename),
                                            !.uploaded = Put(@, file_info)]
                         ELSE local
            /\ IF outcome = "taken"
               THEN /\ reg' = SetRunner(r2)
                    /\ disk' = save_registry(
                            save_registry(disk, "uploaded_file", r2.uploaded, TRUE),
                            "processed_file", r2.processed, TRUE)
               ELSE UNCHANGED <<reg, disk>>
    /\ UNCHANGED <<origin, plog>>

\* upload_file_to_sharepoint failing, if it fails, before the photo is moved
PublishStep == Upload(UploadOutcomes)

\* upload_file_to_sharepoint failing, if it fails, at any of its steps
PublishRound == Upload(UploadOutcomes \cup LateOutcomes)

\* the stage has gone through its list: the process ends
EndStage ==
    /\ stage.name # "none"
    /\ stage.todo = <<>>
    /\ stage' = NoStage
    /\ reg' = SetRunner(NoRegistry)
    /\ UNCHANGED <<origin, local, target, plog, disk>>

PipeInit == PipeIdle /\ ValIdle /\ RegIdle /\ LimIdle /\ RetryIdle /\ CacheIdle /\ MoreIdle

PipeNext ==
    \/ Arrive /\ UNCHANGED NotPipe
    \/ StartFetch /\ UNCHANGED NotPipe
    \/ FetchStep /\ UNCHANGED NotPipe
    \/ StartAnalyze /\ UNCHANGED NotPipe
    \/ AnalyzeStep /\ UNCHANGED NotPipe
    \/ ResolveRun /\ UNCHANGED NotPipe
    \/ StartPublish /\ UNCHANGED NotPipe
    \/ PublishStep /\ UNCHANGED NotPipe
    \/ EndStage /\ UNCHANGED NotPipe

SpecPipeline == PipeInit /\ [][PipeNext]_vars

(***************************************************************************)
(* Claims on the stages                                                    *)
(***************************************************************************)
\* process_photo_batch has gone through one more file of its list
FetchedOne ==
    /\ stage.name = "fetch" /\ stage.todo # <<>>
    /\ stage'.name = "fetch" /\ stage'.todo = Tail(stage.todo)

\* C1: in process_photo_batch a file whose content hash the ledger already
\* holds, under whatever name and from whichever run or batch, is skipped:
\* no metadata is extracted for it, no ledger entry is written for it and
\* it is not in the returned list.
C1_RegisteredHashSkipped ==
    [][(/\ FetchedOne
        /\ OHas(reg[Runner].file_hashes.hashes,
                calculate_file_hash(Head(stage.todo).name, Head(stage.todo).content, TRUE)))
       => /\ stage'.last.skipped
          /\ plog'.extractions = plog.extractions
          /\ reg' = reg /\ disk' = disk
          /\ stage'.returned = stage.returned
          /\ \A i \in DOMAIN stage'.returned : stage'.returned[i] # Head(stage.todo).name
          /\ ~HasFile(local'.downloads, Head(stage.todo).name)]_vars

\* a batch in which one photo was processed and its twin, of the same
\* content under another name, was skipped
C1_Witness ==
    /\ stage.name = "fetch"
    /\ stage.last.op = "fetch" /\ stage.last.skipped
    /\ Len(stage.returned) = 1
    /\ stage.returned[1] # stage.last.name
    /\ stage.last.hash.of \in plog.twins
    /\ OHas(reg[Runner].file_hashes.hashes, stage.last.hash)

\* C2: whatever the runs of the resolve and the publish stage, the target
\* library receives exactly one upload of each source photo.
C2_OneUploadPerPhoto ==
    \A i, j \in DOMAIN target :
        (target[i].original = target[j].original /\ target[i].content = target[j].content)
            => i = j

\* what a name resolves to in the ledger: the target recorded for it as
\* uploaded, or the name the filename mapping gives it
ResolvesTo(r, name) ==
    {OGet(r.uploaded.files, n).target_url : n \in {m \in {name} : is_uploaded(r, m)}}
    \cup {get_mapped_filename(r, n).name :
            n \in {m \in {name} : get_mapped_filename(r, m).found}}

\* the contents fetched as a.jpg and b.jpg in one batch and published since
PublishedTwins == {c \in plog.twins : \E f \in local.uploaded : f.content = c}

\* C8: when a.jpg and b.jpg of the same content are fetched in one batch,
\* the ledger holds one fingerprint, one of the two is sent to inference,
\* and once the photo is published both names resolve in the ledger to the
\* same published target.
C8_TwinsShareTarget ==
    \A c \in PublishedTwins :
        LET ledger == NewFileRegistry(disk) IN
        /\ Cardinality({h \in OKeys(ledger.file_hashes.hashes) : h.of = c}) = 1
        /\ Cardinality({f \in plog.inferred : f.content = c}) <= 1
        /\ \E i \in DOMAIN target :
            /\ target[i].name \in ResolvesTo(ledger, NameA)
            /\ target[i].name \in ResolvesTo(ledger, NameB)

\* the photos of the local directories whose name the ledger maps to a
\* target that it records as uploaded
MappedAndUploaded(r) ==
    {f \in local.downloads \cup local.processed :
        /\ BaseName(f.name) \in local.analysis
        /\ get_mapped_filename(r, f.name).found
        /\ is_uploaded(r, get_mapped_filename(r, f.name).name)}

\* C11: after map_filename(original, target), once the target is recorded
\* as uploaded, the lookup the resolve stage makes for the original through
\* the filename mapping reports it as uploaded, and the photo is not
\* selected for publishing again.
C11_AliasLookup ==
    \A f \in MappedAndUploaded(NewFileRegistry(disk)) :
        /\ mapped_is_uploaded(NewFileRegistry(disk), BaseName(f.name))
        /\ f \notin find_processed_photos(NewFileRegistry(disk), local)

(***************************************************************************)
(* Claims on the registry: failures of its files                           *)
(***************************************************************************)
RecordingOps == StageOps \cup {"map_filename"}

\* C12: when the write of a ledger update fails, mark_as_processed,
\* mark_as_uploaded, register_file_hash and map_filename surface the
\* failure: the call does not return normally.
C12_SaveFailureSurfaced ==
    (rcall.op \in RecordingOps /\ ~rcall.ok) => rcall.raised

\* the dict a registry object holds for a file
LedgerOf(r, f) ==
    CASE f = "processed_file" -> r.processed
      [] f = "uploaded_file" -> r.uploaded
      [] f = "file_hashes_file" -> r.file_hashes

\* every lookup on the ledger of file f answers "not recorded"
LooksEmpty(r, f) ==
    CASE f = "processed_file" ->
            \A name \in RegNames : ~is_processed(r, name) /\ ~get_mapped_filename(r, name).found
      [] f = "uploaded_file" ->
            \A name \in RegNames \cup {TargetOne} : ~is_uploaded(r, name)
      [] f = "file_hashes_file" ->
            \A name \in RegNames, content \in Contents :
                ~is_file_processed_by_hash(r, calculate_file_hash(name, content, TRUE))

\* C13: a ledger file that exists but cannot be read or parsed at startup
\* gives an empty ledger for that file; FileRegistry's initialisation
\* completes, and every lookup on that ledger reports "not yet processed".
C13_UnreadableLedgerIsEmpty ==
    [][\A p \in Procs :
        (~reg[p].loaded /\ reg'[p] # reg[p]) =>
            /\ reg'[p].loaded
            /\ reg'[p].unread = {f \in RegistryFiles : f \in reg'[p].unread /\ disk[f].exists}
            /\ \A f \in reg'[p].unread :
                /\ LedgerOf(reg'[p], f) \in {EmptyProcessed, EmptyUploaded, EmptyHashes}
                /\ LooksEmpty(reg'[p], f)]_vars

\* a process that started on a processed-files ledger holding entries that
\* could not be read
C13_Witness ==
    \E p \in Procs :
        /\ reg[p].loaded
        /\ "processed_file" \in reg[p].unread
        /\ disk.processed_file.data.files # <<>>
        /\ reg[p].processed = EmptyProcessed

(* Claims on the retry loops: output that is no JSON, no capacity *)
\* every round of the item got an answer of the model that is no JSON, as
\* arguments of the tool call or as content
AlwaysUnparseable ==
    /\ hist.outcomes # <<>>
    /\ \A i \in DOMAIN hist.outcomes :
        hist.outcomes[i].kind \in {"bad_arguments", "bad_content"}

\* C14: when the model's output cannot be parsed on every attempt,
\* analyze_photo_with_openai makes exactly max_retries attempts and returns a
\* result flagged with the parse error and the raw response text, and
\* process_photo_with_openai reports the item with that error and raw text.
C14_UnparseableReported ==
    (item.pc = "done" /\ AlwaysUnparseable) =>
        /\ hist.attempts = max_retries
        /\ item.error = PyStr(eParse)
        /\ item.raw_response

\* C15: when wait_for_capacity has returned False, the call fails with the
\* capacity-exceeded error, which is the error the item ends with, and the
\* call is not attempted again.
C15_NoCapacityIsFatal ==
    \A i \in DOMAIN hist.outcomes :
        hist.outcomes[i].kind = "no_capacity" =>
            /\ i = Len(hist.outcomes)
            /\ item.pc = "done" =>
                (item.error # PyNone /\ Contains(eCapacity, item.error.s))

(***************************************************************************)
(* Prompt cache: a batch of process_photos_with_openai, its pool threads   *)
(* and its retry pass.  A step is what a thread does between two accesses  *)
(* of _prompt_cache; one access (a test, a store, a trim, a clear) is      *)
(* atomic.  Each call of process_photo_with_openai is one round of its     *)
(* loop; its retries are those of the retry model.                         *)
(***************************************************************************)
\* the photos of one batch, at most
MaxPhotos == 2
\* the batches of one behaviour
MaxBatches == 2

\* what get_similar_photos_context may return: nothing, or a context that
\* photos of one batch have in common
Contexts == {"", "c1"}
\* how a call of process_photo_with_openai may end: with an analysis, with
\* the error 'Failed to parse JSON from response', with another error
CallResults == {"ok", "parse", "error"}

\* the dict iterator of CPython compares the size of the dict with the size
\* it had when the iteration began, and raises RuntimeError when they differ
iteration_raises(size_at_start, size_now) == size_at_start # size_now

\* a retry pass that takes every photo whose call ended with an error
RetryEveryFailure(result) == result # "ok"

\* lines 1497-1501: the photo goes to failed_photos when its error is
\* 'Failed to parse JSON from response'
goes_to_retry(result) == result = "parse"

\* process_photos_with_openai is called (lines 1422-1486): with nothing to
\* process it returns at once, else every photo is submitted to the pool
StartBatch ==
    /\ batch.pc \in {"idle", "returned"}
    /\ batch.batches < MaxBatches
    /\ \E n \in 0..MaxPhotos :
        batch' = IF n = 0
                 THEN [NoBatch EXCEPT !.pc = "returned", !.batches = batch.batches + 1]
                 ELSE [pc |-> "pool", batches |-> batch.batches + 1,
                       futures |-> [i \in 1..n |-> i], todo |-> [i \in 1..n |-> i],
                       results |-> [i \in 1..n |-> "pending"], next |-> 1,
                       completed_count |-> 0, failed_photos |-> <<>>,
                       processed_photos |-> <<>>, iterating |-> 0]
    /\ generated' = <<>>
    /\ UNCHANGED <<prompt_cache, pool>>

\* a pool thread takes the next submitted call
Take(w) ==
    /\ batch.pc = "pool"
    /\ batch.todo # <<>>
    /\ pool[w].pc = "idle"
    /\ pool' = [pool EXCEPT ![w] = [IdleThread EXCEPT !.pc = "context",
                                                     !.photo = Head(batch.todo)]]
    /\ batch' = [batch EXCEPT !.todo = Tail(@)]
    /\ UNCHANGED <<prompt_cache, generated>>

\* the context of similar photos and the test of its key (lines 1241-1254)
Context(t) ==
    /\ pool[t].pc = "context"
    /\ \E context \in Contexts :
        pool' = [pool EXCEPT ![t] =
            IF context = "" THEN [@ EXCEPT !.pc = "prompt"]
            ELSE IF OHas(prompt_cache, ContextKey(context)) THEN [@ EXCEPT !.pc = "call"]
            ELSE [@ EXCEPT !.pc = "store", !.key = ContextKey(context)]]
    /\ UNCHANGED <<prompt_cache, batch, generated>>

\* get_cached_prompt without a custom prompt, up to the test of the key
\* (lines 131-151)
Prompt(t) ==
    /\ pool[t].pc = "prompt"
    /\ pool' = [pool EXCEPT ![t] =
            IF OHas(prompt_cache, ExifKey(pool[t].photo)) THEN [@ EXCEPT !.pc = "call"]
            ELSE [@ EXCEPT !.pc = "store", !.key = ExifKey(pool[t].photo)]]
    /\ UNCHANGED <<prompt_cache, batch, generated>>

\* the prompt is built and stored (lines 1256-1270, 153-168)
Store(t) ==
    /\ pool[t].pc = "store"
    /\ prompt_cache' = OSet(prompt_cache, pool[t].key, "prompt")
    /\ generated' = Append(generated, pool[t].key)
    /\ pool' = [pool EXCEPT ![t] = [@ EXCEPT !.pc = "call", !.key = ContextKey("")]]
    /\ UNCHANGED batch

\* the analysis and the end of process_photo_with_openai (lines 1272-1347);
\* after an analysis the thread trims a cache above the threshold
Call(t) ==
    /\ pool[t].pc = "call"
    /\ \E result \in CallResults :
        /\ prompt_cache' = IF result = "ok" /\ Len(prompt_cache) > CacheThreshold
                           THEN trim_prompt_cache(prompt_cache, TrimTo)
                           ELSE prompt_cache
        /\ batch' = IF t = MainThread
                    THEN [batch EXCEPT !.failed_photos = Tail(@),
                                       !.processed_photos = Append(@, pool[t].photo)]
                    ELSE [batch EXCEPT !.results[pool[t].photo] = result]
    /\ pool' = [pool EXCEPT ![t] = IdleThread]
    /\ UNCHANGED generated

\* the main thread takes the result of the next future (lines 1488-1507):
\* the photo goes to failed_photos or to processed_photos; when the cache is
\* due for a trim, get_prompt_cache_stats starts to iterate over it (an
\* iteration over an empty dict is over at once)
Collect ==
    /\ batch.pc = "pool"
    /\ batch.iterating = 0
    /\ batch.next <= Len(batch.futures)
    /\ LET photo == batch.futures[batch.next]
           count == batch.completed_count + 1
           due == count % TrimEvery = 0 \/ Len(prompt_cache) > CacheThreshold
       IN  /\ batch.results[photo] # "pending"
           /\ batch' = [batch EXCEPT
                    !.next = IF due /\ prompt_cache # <<>> THEN @ ELSE @ + 1,
                    !.iterating = IF due THEN Len(prompt_cache) ELSE 0,
                    !.completed_count = count,
                    !.failed_photos = IF goes_to_retry(batch.results[photo])
                                      THEN Append(@, photo) ELSE @,
                    !.processed_photos = IF goes_to_retry(batch.results[photo])
                                         THEN @ ELSE Append(@, photo)]
    /\ UNCHANGED <<prompt_cache, pool, generated>>

\* the iteration of get_prompt_cache_stats ends (lines 1509-1514, 1605-1629):
\* a dict that has changed its size since the iteration began raises
\* RuntimeError, which the handler of lines 1522-1526 answers by appending
\* the photo of the future to processed_photos; else the cache is trimmed
CollectTrim ==
    /\ batch.pc = "pool"
    /\ batch.iterating > 0
    /\ LET photo == batch.futures[batch.next]
           raised == iteration_raises(batch.iterating, Len(prompt_cache))
       IN  /\ batch' = [batch EXCEPT
                    !.next = @ + 1,
                    !.iterating = 0,
                    !.processed_photos = IF raised THEN Append(@, photo) ELSE @]
           /\ prompt_cache' = IF raised THEN prompt_cache
                              ELSE trim_prompt_cache(prompt_cache, TrimTo)
    /\ UNCHANGED <<pool, generated>>

\* the pool is done: the cache is cleared (lines 1529-1532)
Clear ==
    /\ batch.pc = "pool"
    /\ batch.next > Len(batch.futures)
    /\ prompt_cache' = IF Len(prompt_cache) > 0 THEN clear_prompt_cache(prompt_cache)
                       ELSE prompt_cache
    /\ batch' = [batch EXCEPT !.pc = "retry"]
    /\ UNCHANGED <<pool, generated>>

\* the retry pass calls process_photo_with_openai on the next photo whose
\* answer was no JSON (lines 1535-1545)
RetryTake ==
    /\ batch.pc = "retry"
    /\ batch.failed_photos # <<>>
    /\ pool[MainThread].pc = "idle"
    /\ pool' = [pool EXCEPT ![MainThread] =
            [IdleThread EXCEPT !.pc = "context", !.photo = Head(batch.failed_photos)]]
    /\ UNCHANGED <<prompt_cache, batch, generated>>

\* process_photos_with_openai returns (lines 1555-1558)
Return ==
    /\ batch.pc = "retry"
    /\ batch.failed_photos = <<>>
    /\ pool[MainThread].pc = "idle"
    /\ batch' = [batch EXCEPT !.pc = "returned"]
    /\ UNCHANGED <<prompt_cache, pool, generated>>

CacheInit == CacheIdle /\ ValIdle /\ RegIdle /\ LimIdle /\ RetryIdle /\ PipeIdle /\ MoreIdle

CacheNext ==
    \/ StartBatch /\ UNCHANGED NotCache
    \/ \E w \in Workers : Take(w) /\ UNCHANGED NotCache
    \/ \E t \in Threads :
        \/ Context(t) /\ UNCHANGED NotCache
        \/ Prompt(t) /\ UNCHANGED NotCache
        \/ Store(t) /\ UNCHANGED NotCache
        \/ Call(t) /\ UNCHANGED NotCache
    \/ Collect /\ UNCHANGED NotCache
    \/ CollectTrim /\ UNCHANGED NotCache
    \/ Clear /\ UNCHANGED NotCache
    \/ RetryTake /\ UNCHANGED NotCache
    \/ Return /\ UNCHANGED NotCache

SpecCache == CacheInit /\ [][CacheNext]_vars

(***************************************************************************)
(* Claims on the prompt cache                                              *)
(***************************************************************************)
\* C16: within one batch the prompt of a cache key is built at most once,
\* also when several pool threads ask for the key at the same time; every
\* later request of the batch for the key gets the cached prompt.
C16_GeneratedOnce ==
    \A i, j \in DOMAIN generated : generated[i] = generated[j] => i = j

\* C17: whenever process_photos_with_openai returns, the prompt cache is
\* empty, so that no prompt built in one batch is used in the next.
C17_ClearedOnReturn ==
    batch.pc = "returned" => prompt_cache = <<>>

\* a step that removed some entries of the cache and left others: a trim
IsTrim == Len(prompt_cache') > 0 /\ Len(prompt_cache') < Len(prompt_cache)

\* C18: at no point of a batch does the cache hold more entries than the
\* threshold, and a trim removes the entries inserted first and leaves
\* exactly the max_size entries inserted last.
C18_CacheBounded ==
    [][/\ batch'.pc \in {"pool", "retry"} => Len(prompt_cache') <= CacheThreshold
       /\ IsTrim => prompt_cache' = SubSeq(prompt_cache, Len(prompt_cache) - TrimTo + 1,
                                           Len(prompt_cache))]_vars

(***************************************************************************)
(* Claims on the generated record: status and original name                *)
(***************************************************************************)
\* C19: every record generate_metadata_for_upload returns has the workflow
\* status "Entwurf KI".
C19_StatusIsDraft ==
    (vcall.op = "generate" /\ ~vret.raised) =>
        /\ HasKey(vret.metadata, "Status")
        /\ vret.metadata["Status"] = PyStr(StatusDraft)

\* the photos the fetch stage has put in the local directories
SourcePhotos == local.downloads \cup local.processed

\* C20: the record of a photo carries in OriginalName the name of the source
\* photo, also when the schema has the field OriginalName and the inference
\* supplies a value for it; the publish stage records this name in the
\* ledger next to the renamed target.
C20_OriginalNameTracked ==
    [][/\ \A f \in local'.upload \ local.upload :
            \E p \in SourcePhotos :
                /\ p.name = f.original
                /\ p.content = f.content
                /\ f.name = generate_target_filename(p.name, f.name.num)
       /\ (stage.name = "publish" /\ Len(stage'.returned) > Len(stage.returned)) =>
            LET file_info == Head(stage.todo)
                ledger == NewFileRegistry(disk')
            IN  /\ \E p \in SourcePhotos : p.name = file_info.original
                /\ is_uploaded(ledger, file_info.original)
                /\ OGet(ledger.uploaded.files, file_info.original).target_url = file_info.name
                /\ get_mapped_filename(ledger, file_info.original)
                        = [found |-> TRUE, name |-> file_info.name]]_vars

\* a photo published under its target name, the ledger mapping the name of
\* the source photo to it
C20_Witness ==
    \E f \in local.uploaded, p \in SourcePhotos :
        /\ p.name = f.original /\ p.content = f.content /\ f.name # p.name
        /\ get_mapped_filename(NewFileRegistry(disk), p.name)
                = [found |-> TRUE, name |-> f.name]

\* C21: a failure while resolving one item does not abort its siblings:
\* after a run of the resolve stage in which an item failed, every other
\* item the stage had found is prepared for upload.
C21_SiblingsPrepared ==
    [][(stage'.name = "none" /\ stage'.last.op = "resolve"
            /\ <<stage', local'>> # <<stage, local>>) =>
         \A p \in find_processed_photos(NewFileRegistry(disk), local) \ stage'.last.failed :
            \E f \in local'.upload : f.original = p.name /\ f.content = p.content]_vars

\* the ledger has the fetch of this photo and its fingerprint
FetchedAndFingerprinted(r, name, content) ==
    /\ is_processed(r, name)
    /\ is_file_processed_by_hash(r, calculate_file_hash(name, content, TRUE))

MaxRuns == 1

\* main is called (lines 95-111), the downloads directory holding some files
AutoStart ==
    /\ auto.pc \in {"idle", "returned"}
    /\ auto.runs < MaxRuns
    /\ \E files \in SUBSET RegNames :
        auto' = [IdleAuto EXCEPT !.pc = "loop", !.runs = auto.runs + 1,
                                 !.downloads = files]

\* one round of the loop of lines 114-118
RunNext ==
    /\ auto.pc = "loop"
    /\ Len(auto.ran) < Len(Scripts)
    /\ \E returncode \in ExitCodes :
        LET script == Scripts[Len(auto.ran) + 1]
            exit_code == run_script(returncode)
            ran == Append(auto.ran, [script |-> script, code |-> returncode])
        IN  auto' = IF exit_code # 0
                    THEN [auto EXCEPT !.ran = ran, !.pc = "returned",
                                      !.result = PyInt(exit_code)]
                    ELSE [auto EXCEPT !.ran = ran]

\* after the loop (lines 120-124): clean_downloads_directory removes the
\* files, or fails on one of them and leaves some (lines 72-93)
CleanAndReturn ==
    /\ auto.pc = "loop"
    /\ Len(auto.ran) = Len(Scripts)
    /\ \E kept \in SUBSET auto.downloads :
        auto' = [auto EXCEPT !.pc = "returned", !.result = PyInt(0),
                             !.downloads = kept, !.cleaned = TRUE]

AutoInit == ValIdle /\ RegIdle /\ LimIdle /\ RetryIdle /\ PipeIdle /\ CacheIdle /\ MoreIdle

AutoNext ==
    \/ AutoStart /\ UNCHANGED NotAuto
    \/ RunNext /\ UNCHANGED NotAuto
    \/ CleanAndReturn /\ UNCHANGED NotAuto

SpecAuto == AutoInit /\ [][AutoNext]_vars

\* C23: main runs the five scripts in the order schema, fetch, analysis,
\* metadata generation, upload; it stops at the first script that exits
\* non-zero, returns that exit code and runs no later script; it returns 0
\* only when all five exited 0, and only then cleans the downloads directory.
C23_SequenceStopsAtFailure ==
    /\ \A i \in DOMAIN auto.ran :
        /\ auto.ran[i].script = Scripts[i]
        /\ i < Len(auto.ran) => auto.ran[i].code = 0
    /\ auto.pc = "returned" =>
        /\ auto.ran # <<>>
        /\ auto.result = PyInt(auto.ran[Len(auto.ran)].code)
        /\ auto.result = PyInt(0) => (Len(auto.ran) = Len(Scripts) /\ auto.cleaned)
    /\ auto.cleaned =>
        /\ Len(auto.ran) = Len(Scripts)
        /\ \A i \in DOMAIN auto.ran : auto.ran[i].code = 0
    /\ auto.pc = "loop" => \A i \in DOMAIN auto.ran : auto.ran[i].code = 0

\* main has returned the exit code of the third script and has run no other
C23_Witness ==
    /\ auto.pc = "returned"
    /\ Len(auto.ran) = 3
    /\ auto.result = PyInt(2)
    /\ ~auto.cleaned /\ auto.downloads # {}


(***************************************************************************)
(* The saves: FileRegistry._save_registry through save_json_file, and      *)
(* OpenAIRateLimiter.update_token_usage through _save_stats.  The process  *)
(* may be killed between any two steps of a save, and is then restarted.   *)
(***************************************************************************)
MaxSaves == 3
TokenCounts == {400, 1200}

Finished(op, before, tokens, failed, raised) ==
    [op |-> op, before |-> before, tokens |-> tokens, failed |-> failed,
     raised |-> raised]

\* a registry call changes the ledger and saves it: the temporary file opens
SaveLedger ==
    /\ saver.pc = "idle"
    /\ saver.saves < MaxSaves
    /\ LET path == temp_path("ledger")
       IN /\ fsys' = create(fsys, path, saver.ledger + 1)
          /\ saver' = [saver EXCEPT !.pc = "dump", !.op = "ledger",
                                    !.path = path, !.binary = FALSE,
                                    !.saves = @ + 1, !.ledger = @ + 1,
                                    !.previous = fsys.ledger]

\* update_token_usage counts the response, and saves or returns
UpdateUsage ==
    /\ saver.pc = "idle"
    /\ saver.saves < MaxSaves
    /\ \E tokens \in TokenCounts :
         LET usage == count_usage(saver.usage, tokens)
             path == "stats"
         IN IF saves_stats(usage, tokens)
            THEN /\ fsys' = create(fsys, path, usage)
                 /\ saver' = [saver EXCEPT
                        !.pc = "dump", !.op = "stats", !.path = path,
                        !.saves = @ + 1, !.usage = usage,
                        !.last = Finished("none", saver.usage, tokens,
                                          FALSE, FALSE)]
            ELSE /\ fsys' = fsys
                 /\ saver' = [saver EXCEPT
                        !.saves = @ + 1, !.usage = usage,
                        !.last = Finished("update", saver.usage, tokens,
                                          FALSE, FALSE)]

\* json.dump writes the next piece
Dump ==
    /\ saver.pc = "dump"
    /\ fsys[saver.path].written < Chunks
    /\ fsys' = write(fsys, saver.path)
    /\ UNCHANGED saver

\* save_json_file: UnicodeEncodeError, a second temporary file in binary mode
DumpBinary ==
    /\ saver.pc = "dump"
    /\ saver.op = "ledger"
    /\ ~saver.binary
    /\ fsys[saver.path].written < Chunks
    /\ fsys' = create(fsys, saver.path, saver.ledger)
    /\ saver' = [saver EXCEPT !.binary = TRUE]

\* a write raises (the disk is full): _save_registry and _save_stats log it
DumpFails ==
    /\ saver.pc = "dump"
    /\ fsys[saver.path].written < Chunks
    /\ fsys' = fsys
    /\ saver' = [saver EXCEPT
           !.pc = "idle",
           !.last = IF saver.op = "stats"
                    THEN Finished("update", saver.last.before,
                                  saver.last.tokens, TRUE,
                                  stats_save_raises(TRUE))
                    ELSE Finished("save", saver.last.before, 0, TRUE, FALSE)]

\* the dump is whole: the file closes, and a temporary file is moved
CloseAndMove ==
    /\ saver.pc = "dump"
    /\ fsys[saver.path].written = Chunks
    /\ fsys' = move(fsys, saver.path, saver.op)
    /\ saver' = [saver EXCEPT
           !.pc = "idle",
           !.last = IF saver.op = "stats"
                    THEN Finished("update", saver.last.before,
                                  saver.last.tokens, FALSE, FALSE)
                    ELSE Finished("save", saver.last.before, 0, FALSE, FALSE)]

\* the module-level get_token_usage_stats (lines 651-721) runs in another
\* thread, without the lock: it reads the statistics file and writes what it
\* read over the counters of the rate limiter; a file json.load cannot read
\* sends it to the method of the rate limiter, which only reads
GetStats ==
    /\ saver.pc \in {"idle", "dump"}
    /\ fsys.stats.exists
    /\ saver' = [saver EXCEPT !.usage = IF fsys.stats.written = Chunks
                                         THEN fsys.stats.data ELSE @]
    /\ UNCHANGED fsys

\* the process is killed in the middle of a save
Crash ==
    /\ saver.pc = "dump"
    /\ saver' = [saver EXCEPT !.pc = "crashed"]
    /\ UNCHANGED fsys

\* the next process loads the ledger and the statistics
Restart ==
    /\ saver.pc = "crashed"
    /\ saver' = [saver EXCEPT !.pc = "idle",
                              !.ledger = load_ledger(fsys.ledger),
                              !.usage = load_stats(fsys.stats)]
    /\ UNCHANGED fsys

SaveInit == ValIdle /\ RegIdle /\ LimIdle /\ RetryIdle /\ PipeIdle /\ CacheIdle /\ MoreIdle

SaveNext ==
    \/ SaveLedger /\ UNCHANGED NotSave
    \/ UpdateUsage /\ UNCHANGED NotSave
    \/ Dump /\ UNCHANGED NotSave
    \/ DumpBinary /\ UNCHANGED NotSave
    \/ DumpFails /\ UNCHANGED NotSave
    \/ CloseAndMove /\ UNCHANGED NotSave
    \/ GetStats /\ UNCHANGED NotSave
    \/ Crash /\ UNCHANGED NotSave
    \/ Restart /\ UNCHANGED NotSave

SpecSave == SaveInit /\ [][SaveNext]_vars

\* the whole content of a ledger save
WholeLedger(data) == [exists |-> TRUE, data |-> data, written |-> Chunks]

\* C24: at every point of a ledger save, a crash included, the ledger file
\* holds the whole previous content or the whole new content, never a part
\* of one; a restart loads what the file holds.
C24_LedgerSaveAtomic ==
    /\ IsComplete(fsys.ledger)
    /\ saver.op = "ledger" =>
         fsys.ledger \in {saver.previous, WholeLedger(saver.ledger)}
    /\ saver.pc = "crashed" => load_ledger(fsys.ledger) = fsys.ledger.data

\* a ledger save was killed after the first piece of its dump, with the
\* ledger file of an earlier save in place
C24_Witness ==
    /\ saver.pc = "crashed"
    /\ saver.op = "ledger"
    /\ fsys.temp.exists
    /\ fsys.temp.written = 1
    /\ fsys.ledger = WholeLedger(1)
    /\ fsys.temp.data = 2

\* C25: at every point of a statistics save, a crash included, the
\* statistics file holds a whole snapshot, and a restart loads the counters
\* of a snapshot that was saved.
C25_StatsSaveAtomic ==
    /\ IsComplete(fsys.stats)
    /\ saver.pc = "crashed" => load_stats(fsys.stats) = fsys.stats.data

\* C26: update_token_usage returns without an exception and with its
\* counters updated, whether or not the statistics could be saved.
C26_SaveFailureOffHotPath ==
    [][(saver'.last.op = "update" /\ saver'.last # saver.last) =>
         /\ ~saver'.last.raised
         /\ saver'.usage = count_usage(saver'.last.before, saver'.last.tokens)]_vars

\* update_token_usage has returned after a statistics save that failed
C26_Witness ==
    /\ saver.pc = "idle"
    /\ saver.last.op = "update"
    /\ saver.last.failed
    /\ saver.usage.request_count = 2

(***************************************************************************)
(* Claims on the sources of a field                                        *)
(***************************************************************************)
\* the sources of a field in their order: the configured priorities, or the
\* mapped EXIF attribute and then the inference
SourcesOf(title) ==
    IF HasPriorities(title) THEN field_priorities(title)
    ELSE <<"exif", "analysis">>

\* the text of the coordinates the EXIF data hold, <<>> when they hold none
CoordinateText(exif_metadata) ==
    IF /\ HasKey(exif_metadata, "GPSInfo")
       /\ HasKey(exif_metadata, "GPS Coordinates")
       /\ IsStr(exif_metadata["GPS Coordinates"])
    THEN exif_metadata["GPS Coordinates"].s
    ELSE <<>>

\* what one source supplies for a title, PyNone when it supplies nothing
Supplied(source, title, analysis, exif_metadata, geo) ==
    CASE source = "analysis" ->
           IF HasKey(analysis, title) THEN analysis[title] ELSE PyNone
      [] source = "exif" ->
           IF /\ exif_to_sharepoint(title) # ""
              /\ HasKey(exif_metadata, exif_to_sharepoint(title))
           THEN exif_metadata[exif_to_sharepoint(title)]
           ELSE PyNone
      [] source = "exif_gps" ->
           IF CoordinateText(exif_metadata) = <<>> THEN PyNone
           ELSE IF GpsParses(CoordinateText(exif_metadata)) /\ Truthy(geo)
           THEN geo
           ELSE PyStr(GpsPrefix \o CoordinateText(exif_metadata))

\* the value of the first source, in the order of the title, that supplies one
FirstSupplied(title, analysis, exif_metadata, geo) ==
    LET sources == SourcesOf(title)
        supplying == {i \in DOMAIN sources :
                        Supplied(sources[i], title, analysis, exif_metadata, geo) # PyNone}
    IN  IF supplying = {} THEN PyNone
        ELSE Supplied(sources[CHOOSE i \in supplying : \A j \in supplying : i <= j],
                      title, analysis, exif_metadata, geo)

\* C27: for every schema field outside the skip-list the record holds, under
\* the internal name, the validated value of the first source in the order of
\* the field that supplies a value; a field no source supplies a valid value
\* for is not in the record (the status apart, which has a default).
C27_FirstSourceWins ==
    (vcall.op = "generate" /\ ~vret.raised) =>
        \A i \in DOMAIN vcall.schema.fields :
            LET field == vcall.schema.fields[i]
                value == FirstSupplied(field.title, vcall.photo_info.analysis,
                                       vcall.photo_info.metadata, vcall.geo)
                checked == validate_metadata_field(field.internal_name, value, field)
            IN  field.internal_name \notin SkipFields =>
                  IF value # PyNone /\ checked.valid /\ checked.value # PyNone
                  THEN /\ HasKey(vret.metadata, field.internal_name)
                       /\ vret.metadata[field.internal_name] = checked.value
                  ELSE \/ ~HasKey(vret.metadata, field.internal_name)
                       \/ field.internal_name = "Status"

RateLimitedRound ==
    /\ Len(hist'.outcomes) = Len(hist.outcomes) + 1
    /\ hist'.outcomes[Len(hist'.outcomes)] = [kind |-> "error", message |-> eRateLimit]
    /\ inner.retry_count < max_retries - 1

\* C29: after a rate limit error that names a wait, with attempts remaining,
\* the call sleeps once, for the named time (the buffer of one second apart)
\* and not for a backoff as well, and is then attempted again.
C29_SuggestedWaitHonoured ==
    [][RateLimitedRound =>
         /\ \E buffer \in {0, RateLimitBuffer} :
              hist'.delays = Append(hist.delays, rate_limit_wait(eRateLimit) + buffer)
         /\ item'.pc = "analyze"
         /\ inner'.retry_count = inner.retry_count + 1]_vars

(***************************************************************************)
(* Claims on the retry pass of a batch                                     *)
(***************************************************************************)
\* the photos of the batch whose call ended with the parse error, in the
\* order of the futures
RECURSIVE ParseErrors(_, _)
ParseErrors(futures, results) ==
    IF futures = <<>> THEN <<>>
    ELSE (IF results[Head(futures)] = "parse" THEN <<Head(futures)>> ELSE <<>>)
         \o ParseErrors(Tail(futures), results)

IsSuffixOf(s, whole) ==
    /\ Len(s) <= Len(whole)
    /\ s = SubSeq(whole, Len(whole) - Len(s) + 1, Len(whole))

Busy(t) == pool[t].pc # "idle"

\* C30: the retry pass starts with exactly the photos whose call ended with
\* the parse error and takes them one after the other, each once; while it
\* works on a photo every call of the pool has ended; no two threads ever
\* work on the same photo.
C30_RetryPass ==
    [][/\ (batch.pc = "pool" /\ batch'.pc = "retry") =>
            batch'.failed_photos = ParseErrors(batch'.futures, batch'.results)
       /\ batch'.pc = "retry" =>
            IsSuffixOf(batch'.failed_photos,
                       ParseErrors(batch'.futures, batch'.results))
       /\ pool'[MainThread].pc # "idle" =>
            /\ batch'.pc = "retry"
            /\ batch'.failed_photos # <<>>
            /\ pool'[MainThread].photo = Head(batch'.failed_photos)
            /\ \A w \in Workers : pool'[w].pc = "idle"
            /\ \A p \in DOMAIN batch'.results : batch'.results[p] # "pending"
       /\ (batch.pc = "retry" /\ batch'.pc = "returned") => batch.failed_photos = <<>>
       /\ \A t1, t2 \in Threads :
            (pool'[t1].pc # "idle" /\ pool'[t2].pc # "idle"
             /\ pool'[t1].photo = pool'[t2].photo) => t1 = t2]_vars

\* the retry pass works on a photo whose call ended with the parse error,
\* and leaves alone a photo of the batch whose call ended with another error
C30_Witness ==
    /\ batch.pc = "retry"
    /\ Busy(MainThread)
    /\ batch.results[pool[MainThread].photo] = "parse"
    /\ \E p \in DOMAIN batch.results : batch.results[p] = "error"

(***************************************************************************)
(* Claims on the buckets of the rate limiter                               *)
(***************************************************************************)
\* both buckets are between nothing and their ceiling
WithinCeilings(l) ==
    /\ 0 <= l.request_tokens60
    /\ l.request_tokens60 <= RequestsPerMinute * SecondsPerMinute
    /\ 0 <= l.tokens60
    /\ l.tokens60 <= MaxTokensPerMinute * SecondsPerMinute

\* C31: under every interleaving of the refill with the admissions of the
\* callers both buckets stay between 0 and their ceiling, and a refill sets
\* each bucket to min(ceiling, available + rate x elapsed time).
C31_BucketsWithinCeilings ==
    [][/\ WithinCeilings(lim)
       /\ WithinCeilings(lim')
       /\ lim'.last_refill_time # lim.last_refill_time =>
            LET elapsed == now - lim.last_refill_time IN
            /\ lim'.request_tokens60 =
                 Min(RequestsPerMinute * SecondsPerMinute,
                     lim.request_tokens60 + RequestsPerMinute * elapsed)
            /\ lim'.tokens60 =
                 Min(MaxTokensPerMinute * SecondsPerMinute,
                     lim.tokens60 + MaxTokensPerMinute * elapsed)]_vars

\* one call was admitted at the start; the first refill has filled the
\* buckets again and the second refill has met the ceiling
C31_Witness ==
    /\ now = 2 * TickSeconds
    /\ lim.last_refill_time = now
    /\ Len(admitted) = 1
    /\ admitted[1].t = 0
    /\ lim.request_tokens60 = RequestsPerMinute * SecondsPerMinute
    /\ lim.tokens60 = MaxTokensPerMinute * SecondsPerMinute

(***************************************************************************)
(* Claims on the running totals                                            *)
(***************************************************************************)
\* C32: while the process runs, the counters of the rate limiter never
\* decrease, and they change only by an update_token_usage call, which adds
\* one to request_count and the tokens of the response to total_tokens; this
\* under every interleaving with the module-level get_token_usage_stats.
C32_TotalsConsistent ==
    [][saver.pc # "crashed" =>
         /\ saver'.usage.request_count >= saver.usage.request_count
         /\ saver'.usage.total_tokens >= saver.usage.total_tokens
         /\ saver'.usage # saver.usage =>
              /\ saver'.usage.request_count = saver.usage.request_count + 1
              /\ saver'.usage.total_tokens - saver.usage.total_tokens \in TokenCounts]_vars

(***************************************************************************)
(* Claims on the list a batch returns                                      *)
(***************************************************************************)
Occurrences(seq, x) == Cardinality({i \in DOMAIN seq : seq[i] = x})

\* C33: the list process_photos_with_openai returns holds every photo it
\* was given exactly once, under every interleaving of the pool threads with
\* the loop that takes the results and trims the cache.
C33_EveryPhotoOnce ==
    batch.pc = "returned" =>
        \A photo \in DOMAIN batch.results :
            Occurrences(batch.processed_photos, photo) = 1

(***************************************************************************)
(* Claims on record_error                                                  *)
(***************************************************************************)
\* the round of this step ended in an exception of the backend
FailedRound ==
    /\ Len(hist'.outcomes) = Len(hist.outcomes) + 1
    /\ hist'.outcomes[Len(hist'.outcomes)].kind = "error"

\* C34: after a failed attempt record_error has added one to error_count
\* and has returned: analyze_photo_with_openai stays in its loop, or, on the
\* last attempt, returns the message of the backend.
C34_RecordErrorReturns ==
    [][FailedRound =>
         /\ error_count' = error_count + 1
         /\ item'.pc # "raised"
         /\ IF inner.retry_count = max_retries - 1
            THEN /\ item'.pc = "returned"
                 /\ item'.value = PyStr(hist'.outcomes[Len(hist'.outcomes)].message)
            ELSE /\ item'.pc = "analyze"
                 /\ inner'.retry_count = inner.retry_count + 1]_vars

(***************************************************************************)
(* photo_metadata.py: process_photo_batch with the failures of its steps   *)
(*                                                                         *)
(* One round of the loop with at most one failing step: download_photo and *)
(* save_metadata_to_yaml log and raise again (lines 137-139, 323-324), so  *)
(* the handler of the loop (lines 462-464) ends the round;                 *)
(* extract_exif_metadata logs and returns {} (lines 196-198), the saves of *)
(* the registry log and return (registry.py lines 85-86), and              *)
(* delete_sharepoint_file logs and returns False (lines 345-347), so the   *)
(* round goes on.                                                          *)
(***************************************************************************)
Faults == {"none", "download", "extract", "yaml", "ledger", "delete"}

\* what open(local_path, 'wb') leaves behind when the download fails
Truncated == "truncated"

\* the extractions of metadata in one behaviour
MaxFetches == 3

\* the steps whose exception reaches the handler of the loop
round_raises(fault) == fault \in {"download", "yaml"}

\* one round of the loop of process_photo_batch (lines 379-464)
FetchRound ==
    /\ stage.name = "fetch"
    /\ stage.todo # <<>>
    /\ plog.extractions < MaxFetches
    /\ \E fault \in Faults :
        LET file_info == Head(stage.todo)
            file_hash == calculate_file_hash(file_info.name, file_info.content, TRUE)
            left == IF fault = "delete" THEN origin ELSE Remove(origin, file_info.name)
            r1 == register_file_hash(RunnerRegistry, file_hash, file_info.name, "exif")
            r2 == mark_as_processed(r1, file_info.name, "exif")
            saved == fault # "ledger"
            duplicate == is_file_processed_by_hash(RunnerRegistry, file_hash)
            last == [op |-> "fetch", name |-> file_info.name, hash |-> file_hash,
                     skipped |-> duplicate, fault |-> fault]
        IN  IF fault = "download"
            THEN /\ local' = [local EXCEPT
                        !.downloads = Put(@, Photo(file_info.name, Truncated))]
                 /\ stage' = [stage EXCEPT !.todo = Tail(@), !.last = last]
                 /\ UNCHANGED <<origin, plog, disk, reg>>
            ELSE IF duplicate
            THEN /\ origin' = left
                 /\ local' = [local EXCEPT !.downloads = Remove(@, file_info.name)]
                 /\ stage' = [stage EXCEPT !.todo = Tail(@), !.last = last]
                 /\ UNCHANGED <<plog, disk, reg>>
            ELSE IF round_raises(fault)
            THEN /\ local' = [local EXCEPT !.downloads = Put(@, file_info)]
                 /\ plog' = [plog EXCEPT !.extractions = @ + 1]
                 /\ stage' = [stage EXCEPT !.todo = Tail(@), !.last = last]
                 /\ UNCHANGED <<origin, disk, reg>>
            ELSE /\ origin' = left
                 /\ local' = [local EXCEPT !.downloads = Remove(@, file_info.name),
                                           !.processed = Put(@, file_info)]
                 /\ plog' = [plog EXCEPT !.extractions = @ + 1]
                 /\ reg' = SetRunner(r2)
                 /\ disk' = save_registry(
                        save_registry(disk, "file_hashes_file", r1.file_hashes, saved),
                        "processed_file", r2.processed, saved)
                 /\ stage' = [stage EXCEPT !.todo = Tail(@),
                        !.returned = Append(@, file_info.name), !.last = last]
    /\ UNCHANGED target

FetchNext ==
    \/ Arrive /\ UNCHANGED NotPipe
    \/ StartFetch /\ UNCHANGED NotPipe
    \/ FetchRound /\ UNCHANGED NotPipe
    \/ EndStage /\ UNCHANGED NotPipe

SpecFetch == PipeInit /\ [][FetchNext]_vars

(***************************************************************************)
(* Claims on process_photo_batch                                           *)
(***************************************************************************)
\* the round of this step has deleted its file from the source library
DeletedFromOrigin ==
    /\ stage.name = "fetch"
    /\ stage.todo # <<>>
    /\ \E f \in origin : f.name = Head(stage.todo).name
    /\ \A f \in origin' : f.name # Head(stage.todo).name

\* C35: a round of process_photo_batch deletes its file from the source
\* library only when the registry holds the hash of the file's content, and
\* never when the download, the extraction of the metadata or the save of
\* the metadata of that file has failed.
C35_DeleteAfterRegistration ==
    [][DeletedFromOrigin =>
         /\ is_file_processed_by_hash(reg'[Runner], stage'.last.hash)
         /\ stage'.last.fault \notin {"download", "extract", "yaml"}]_vars

(***************************************************************************)
(* The stages, the upload failing at any of its steps                      *)
(***************************************************************************)
PublishNext ==
    \/ Arrive /\ UNCHANGED NotPipe
    \/ StartFetch /\ UNCHANGED NotPipe
    \/ FetchStep /\ UNCHANGED NotPipe
    \/ StartAnalyze /\ UNCHANGED NotPipe
    \/ AnalyzeStep /\ UNCHANGED NotPipe
    \/ ResolveRun /\ UNCHANGED NotPipe
    \/ StartPublish /\ UNCHANGED NotPipe
    \/ PublishRound /\ UNCHANGED NotPipe
    \/ EndStage /\ UNCHANGED NotPipe

SpecPublish == PipeInit /\ [][PublishNext]_vars

(***************************************************************************)
(* Claims on upload_file_to_sharepoint                                     *)
(***************************************************************************)
\* upload_file_to_sharepoint has returned for the file of this step
Uploading == stage.name = "publish" /\ stage.todo # <<>>

\* C36: when upload_file_to_sharepoint returns False the file is still in
\* the upload directory and the ledger does not report it as uploaded; when
\* it returns True the ledger reports the target name as uploaded and, when
\* it differs, the original name too.
C36_FailedUploadStays ==
    [][Uploading =>
         LET file_info == Head(stage.todo)
             returned_true == Len(stage'.returned) = Len(stage.returned) + 1
         IN  IF returned_true
             THEN /\ is_uploaded(reg'[Runner], file_info.name)
                  /\ is_uploaded(NewFileRegistry(disk'), file_info.name)
                  /\ is_uploaded(reg'[Runner], file_info.original)
             ELSE /\ file_info \in local'.upload
                  /\ ~is_uploaded(NewFileRegistry(disk'), file_info.name)]_vars

(***************************************************************************)
(* Claims on what wait_for_capacity takes from the buckets                 *)
(***************************************************************************)
\* the call of w ends in this step
Returns(w) == callers[w].pc = "check" /\ callers'[w].pc = "idle"

\* the call of w ends inside its loop: it returns True
ReturnsTrue(w) == Returns(w) /\ now - callers[w].start_time < MaxWaitTime

\* C37: a call of wait_for_capacity that returns True has taken one request
\* slot and tokens_needed tokens in the step that found them available; a
\* call that is sent to sleep or returns False has taken nothing; a call
\* that asks for more than max_tokens_per_minute never returns True.
C37_ConsumesExactly ==
    [][\A w \in Workers :
         /\ ReturnsTrue(w) =>
              /\ has_capacity(lim, callers[w].tokens_needed)
              /\ callers[w].tokens_needed <= MaxTokensPerMinute
              /\ lim'.request_tokens60 = lim.request_tokens60 - SecondsPerMinute
              /\ lim'.tokens60 =
                    lim.tokens60 - callers[w].tokens_needed * SecondsPerMinute
         /\ (Returns(w) /\ ~ReturnsTrue(w)) => lim' = lim
         /\ (callers[w].pc = "check" /\ callers'[w].pc = "sleep") => lim' = lim]_vars

\* one call has returned True at time 0 and the buckets lack what it took,
\* while a call that asks for more than a full bucket has been put to sleep
C37_Witness ==
    /\ Len(admitted) = 1
    /\ lim.request_tokens60 = (RequestsPerMinute - 1) * SecondsPerMinute
    /\ lim.tokens60 = (MaxTokensPerMinute - admitted[1].tokens) * SecondsPerMinute
    /\ \E w \in Workers :
        /\ callers[w].pc = "sleep"
        /\ callers[w].tokens_needed > MaxTokensPerMinute

(***************************************************************************)
(* utils/registry.py: the operations of one FileRegistry, those that       *)
(* delete included                                                         *)
(***************************************************************************)
\* the registry calls of one behaviour when removals and purges are among
\* them
MaxPurgeCalls == 3

\* the call records of the operations that take no name or no attributes
NoName == FileName("", 0, "")
NoAttrs == [none |-> TRUE]

\* remove_from_processed(filename) (lines 188-204): saves only when the
\* file was recorded
RemoveFromProcessed(p) ==
    \E filename \in RegNames, ok \in BOOLEAN :
        LET r == remove_from_processed(reg[p], filename) IN
        /\ reg[p].loaded /\ CallsMade < MaxPurgeCalls
        /\ reg' = [reg EXCEPT ![p] = r]
        /\ disk' = save_registry(disk, "processed_file", r.processed,
                                 ok /\ is_processed(reg[p], filename))
        /\ rcall' = CallRecord("remove_from_processed", p, filename, NoAttrs, ok,
                               reg[p].processed.files, disk.processed_file.data.files)

\* remove_from_uploaded(filename) (lines 206-220)
RemoveFromUploaded(p) ==
    \E filename \in RegNames, ok \in BOOLEAN :
        LET r == remove_from_uploaded(reg[p], filename) IN
        /\ reg[p].loaded /\ CallsMade < MaxPurgeCalls
        /\ reg' = [reg EXCEPT ![p] = r]
        /\ disk' = save_registry(disk, "uploaded_file", r.uploaded,
                                 ok /\ is_uploaded(reg[p], filename))
        /\ rcall' = CallRecord("remove_from_uploaded", p, filename, NoAttrs, ok,
                               reg[p].uploaded.files, disk.uploaded_file.data.files)

\* clear_registries() (lines 222-230): the two dicts are replaced and saved
ClearRegistries(p) ==
    \E ok_processed \in BOOLEAN, ok_uploaded \in BOOLEAN :
        LET r == clear_registries(reg[p]) IN
        /\ reg[p].loaded /\ CallsMade < MaxPurgeCalls
        /\ reg' = [reg EXCEPT ![p] = r]
        /\ disk' = save_registry(
                save_registry(disk, "processed_file", r.processed, ok_processed),
                "uploaded_file", r.uploaded, ok_uploaded)
        /\ rcall' = CallRecord("clear_registries", p, NoName, NoAttrs,
                               ok_processed /\ ok_uploaded,
                               reg[p].processed.files, disk.processed_file.data.files)

PurgeNext ==
    \/ StartProcess(Runner) /\ UNCHANGED NotReg
    \/ ExitProcess(Runner) /\ UNCHANGED NotReg
    \/ MarkAsProcessed(Runner) /\ UNCHANGED NotReg
    \/ MarkAsUploaded(Runner) /\ UNCHANGED NotReg
    \/ RegisterFileHash(Runner) /\ UNCHANGED NotReg
    \/ MapFilename(Runner) /\ UNCHANGED NotReg
    \/ RemoveFromProcessed(Runner) /\ UNCHANGED NotReg
    \/ RemoveFromUploaded(Runner) /\ UNCHANGED NotReg
    \/ ClearRegistries(Runner) /\ UNCHANGED NotReg

SpecPurge == RegInit /\ [][PurgeNext]_vars

(***************************************************************************)
(* Claims on the purge                                                     *)
(***************************************************************************)
\* the keys of the four dicts of a registry
Entries(r) ==
    [processed |-> OKeys(r.processed.files),
     mapping |-> OKeys(r.processed.filename_mapping),
     uploaded |-> OKeys(r.uploaded.files),
     hashes |-> OKeys(r.file_hashes.hashes)]

\* every entry of the dicts named is kept
Keeps(before, after, dicts) == \A d \in dicts : before[d] \subseteq after[d]

AllDicts == {"processed", "mapping", "uploaded", "hashes"}

\* C38: clear_registries empties the processed registry with its filename
\* mapping and the uploaded registry, also in their files when the saves
\* succeed, and leaves the hash registry as it was, so that every hash
\* registered before the purge is still reported by
\* is_file_processed_by_hash; remove_from_processed and remove_from_uploaded
\* delete the one entry named; every other operation keeps every entry.
C38_PurgeKeepsHashes ==
    [][(rcall' # rcall) =>
         LET before == reg[rcall'.p]
             after == reg'[rcall'.p]
         IN  CASE rcall'.op = "clear_registries" ->
                    /\ after.processed = EmptyProcessed
                    /\ after.uploaded = EmptyUploaded
                    /\ get_mapped_filename(after, NameA).found = FALSE
                    /\ after.file_hashes = before.file_hashes
                    /\ disk'.file_hashes_file = disk.file_hashes_file
                    /\ \A content \in Contents :
                        is_file_processed_by_hash(before,
                                calculate_file_hash(NameA, content, TRUE))
                        => is_file_processed_by_hash(after,
                                calculate_file_hash(NameA, content, TRUE))
                    /\ rcall'.ok =>
                        /\ NewFileRegistry(disk').processed = EmptyProcessed
                        /\ NewFileRegistry(disk').uploaded = EmptyUploaded
               [] rcall'.op = "remove_from_processed" ->
                    /\ Entries(after).processed = Entries(before).processed \ {rcall'.key}
                    /\ Keeps(Entries(before), Entries(after), AllDicts \ {"processed"})
               [] rcall'.op = "remove_from_uploaded" ->
                    /\ Entries(after).uploaded = Entries(before).uploaded \ {rcall'.key}
                    /\ Keeps(Entries(before), Entries(after), AllDicts \ {"uploaded"})
               [] OTHER -> Keeps(Entries(before), Entries(after), AllDicts)]_vars

\* a purge has just emptied a processed registry that had entries and a
\* mapping, and the hash registry still holds a hash
C38_Witness ==
    /\ rcall.op = "clear_registries"
    /\ rcall.keys_before # {}
    /\ reg[Runner].processed = EmptyProcessed
    /\ reg[Runner].file_hashes.hashes # <<>>
    /\ disk.processed_file.exists

(***************************************************************************)
(* The process tracker: the scripts, their monitor threads, the pages      *)
(***************************************************************************)
\* run_script (web/views/main.py lines 257-280): Popen, then add_process
\* with status "running"
RunScript(pid) ==
    /\ tracker.processes[pid] = "absent"
    /\ tracker.exit_code[pid] = StillRuns
    /\ tracker' = [tracker EXCEPT
            !.processes[pid] = "running",
            !.alive = @ \cup {pid},
            !.last = "add_process"]

\* the script ends by itself
ScriptEnds(pid) ==
    /\ pid \in tracker.alive
    /\ \E code \in ReturnCodes :
        tracker' = [tracker EXCEPT
            !.alive = @ \ {pid},
            !.exit_code[pid] = code,
            !.last = "exit"]

\* the monitor thread of the script finds it ended (web/views/main.py lines
\* 128-158): finished for return code 0, error for any other
MonitorReports(pid) ==
    /\ pid \notin tracker.alive
    /\ tracker.exit_code[pid] # StillRuns
    /\ pid \notin tracker.reported
    /\ tracker' = [tracker EXCEPT
            !.processes = update_process(@, pid,
                IF tracker.exit_code[pid] = "zero" THEN "finished" ELSE "error"),
            !.reported = @ \cup {pid},
            !.last = "update_process"]

\* kill_process (web/views/processes.py lines 104-145): the process is
\* killed, or the kill fails, and the status is set to killed either way
KillProcess(pid) ==
    /\ tracker.processes[pid] # "absent"
    /\ \E killed \in BOOLEAN :
        tracker' = [tracker EXCEPT
            !.processes = update_process(@, pid, "killed"),
            !.alive = IF killed THEN @ \ {pid} ELSE @,
            !.exit_code[pid] = IF killed /\ pid \in tracker.alive
                               THEN "nonzero" ELSE @,
            !.last = "kill_process"]

\* get_all_processes (lines 206-243)
GetAllProcesses ==
    /\ tracker.last # "get_all_processes"
    /\ tracker' = [tracker EXCEPT
            !.processes = mark_finished(@, tracker.alive),
            !.last = "get_all_processes"]

TrackInit == ValIdle /\ RegIdle /\ LimIdle /\ RetryIdle /\ PipeIdle /\ CacheIdle /\ MoreIdle

TrackNext ==
    \/ \E pid \in Pids :
        \/ RunScript(pid) /\ UNCHANGED NotTrack
        \/ ScriptEnds(pid) /\ UNCHANGED NotTrack
        \/ MonitorReports(pid) /\ UNCHANGED NotTrack
        \/ KillProcess(pid) /\ UNCHANGED NotTrack
    \/ GetAllProcesses /\ UNCHANGED NotTrack

SpecTracker == TrackInit /\ [][TrackNext]_vars

(***************************************************************************)
(* Claims on the process tracker                                           *)
(***************************************************************************)
TerminalStatuses == {"error", "killed"}

\* C39: a process whose recorded status is error or killed never gets the
\* status finished, and get_all_processes sets finished only over a status
\* that was still running or starting.
C39_TerminalStatusFinal ==
    [][\A pid \in Pids :
         /\ tracker.processes[pid] \in TerminalStatuses
                => tracker'.processes[pid] # "finished"
         /\ (/\ tracker'.last = "get_all_processes"
             /\ tracker'.processes[pid] = "finished"
             /\ tracker.processes[pid] # "finished")
                => tracker.processes[pid] \in ActiveStatuses]_vars

(***************************************************************************)
(* metadata_generator.py: the numbers of the target filenames              *)
(*                                                                         *)
(* The upload and the uploaded directories hold target files of earlier    *)
(* runs; a run gives the photos it found the numbers next_number + i       *)
(* (lines 641-649) and copies them into the upload directory.              *)
(***************************************************************************)
\* the photos one run prepares, and the files the two directories hold
MaxFound == 2
MaxTargets == 4

\* the numbers of the target files of earlier runs: the first two, the last
\* of four digits, the first of five
ExistingNumbers == {1, 2, 10^MaskWidth - 1, 10^MaskWidth}

Prepared(number) ==
    [name |-> generate_target_filename(NameA, number), content |-> "c1",
     original |-> NameA]

\* the loop of main (lines 641-649) over the photos found
NumberRun ==
    /\ stage.name = "none"
    /\ Cardinality(local.upload \cup local.uploaded) < MaxTargets
    /\ \E found \in 1..MaxFound :
        LET next_number == get_next_file_number(local.upload, local.uploaded)
            made == [i \in 1..found |-> Prepared(next_number + i - 1)]
        IN  /\ local' = [local EXCEPT !.upload =
                    {g \in @ : \A i \in 1..found : g.name # made[i].name}
                    \cup {made[i] : i \in 1..found}]
            /\ stage' = [NoStage EXCEPT !.name = "number",
                    !.returned = [i \in 1..found |-> made[i].name],
                    !.last = [op |-> "number", next_number |-> next_number]]
    /\ UNCHANGED <<origin, target, plog, disk, reg>>

NumberInit ==
    /\ ValIdle /\ RegIdle /\ LimIdle /\ RetryIdle /\ CacheIdle /\ MoreIdle
    /\ origin = {}
    /\ target = <<>>
    /\ stage = NoStage
    /\ plog = [arrivals |-> 0, extractions |-> 0, inferred |-> {}, twins |-> {}]
    /\ \E waiting \in SUBSET ExistingNumbers :
        \E done \in SUBSET (ExistingNumbers \ waiting) :
            local = [downloads |-> {}, processed |-> {}, analysis |-> {},
                     upload |-> {Prepared(n) : n \in waiting},
                     uploaded |-> {Prepared(n) : n \in done}]

NumberNext ==
    \/ NumberRun /\ UNCHANGED NotPipe
    \/ EndStage /\ UNCHANGED NotPipe

SpecNumber == NumberInit /\ [][NumberNext]_vars

(***************************************************************************)
(* Claims on the target numbers                                            *)
(***************************************************************************)
\* the names of the target files the two directories hold
Present == {f.name : f \in local.upload \cup local.uploaded}

\* C40: the photos of one run get consecutive numbers from
\* get_next_file_number() on, that number is greater than the number of
\* every target file in the upload and the uploaded directories, and no name
\* given is the name of a file the directories hold already.
C40_TargetNamesUnique ==
    [][(stage.name = "none" /\ stage'.name = "number") =>
         LET next_number == stage'.last.next_number
             names == stage'.returned
         IN  /\ next_number = get_next_file_number(local.upload, local.uploaded)
             /\ \A i \in DOMAIN names : names[i].num = next_number + i - 1
             /\ \A i, j \in DOMAIN names : names[i] = names[j] => i = j
             /\ \A name \in Present :
                    name.stem = TargetStem => name.num < next_number
             /\ \A i \in DOMAIN names : names[i] \notin Present]_vars
====
